---- MODULE Spec2Model ----
(***************************************************************************)
(* A model of tiviem, a TypeScript interpreter for EVM bytecode.           *)
(*                                                                         *)
(*   src/bytecode-parser.ts  evm(): the fetch / dispatch / charge / merge  *)
(*                           loop of one frame                             *)
(*   src/opcodes.ts          instructions[]: one handler per opcode, and   *)
(*                           the memory / jump helpers                     *)
(*                                                                         *)
(* evm() is recursive (CALL, DELEGATECALL and STATICCALL call it from the  *)
(* handler).  The recursion is modelled by the explicit call stack         *)
(* `frames`: the handler's first half pushes the sub-frame, the sub-frame  *)
(* runs its own loop, and the handler's second half (CallReturn) folds the *)
(* sub-frame's Result into the calling frame.                              *)
(***************************************************************************)
EXTENDS Integers, Sequences, FiniteSets, TLC

VARIABLES
  frames,   \* call stack of evm() activations, the last one is executing
  state,    \* Context.state: the world state shared by all frames
  thrown    \* TRUE once a JavaScript exception left evm() (no Result)

vars == <<frames, state, thrown>>

-----------------------------------------------------------------------------
(* Bounds of the model *)

\* words are WordBits wide instead of 256 bits
WordBits == 24
\* gasLeft is an IEEE double: far enough below zero a subtraction is absorbed
\* (x - c = x).  GasFloorMag stands for that magnitude.
GasFloorMag == 1000
\* depth of nested evm() activations the JavaScript stack can hold
MaxDepth == 4

GasFloor == 0 - GasFloorMag

-----------------------------------------------------------------------------
(* Numbers *)

RECURSIVE Pow2(_)
Pow2(n) == IF n = 0 THEN 1 ELSE 2 * Pow2(n - 1)

\* a reduction that clamps to the word range instead of wrapping around
asUintN_Saturates(x) ==
  IF x < 0 THEN 0 ELSE IF x >= Pow2(WordBits) THEN Pow2(WordBits) - 1 ELSE x

\* BigInt.asUintN(256, x)
asUintN(x) == x % Pow2(WordBits)

Min(a, b) == IF a < b THEN a ELSE b
Max(a, b) == IF a > b THEN a ELSE b

\* the double NaN (INVALID's minimumGas).  Every arithmetic operation on it
\* gives NaN, every comparison with it is false, and it is falsy.
NaN == 0 - 1000000

NumSub(a, b) == IF a = NaN \/ b = NaN THEN NaN ELSE a - b
NumAdd(a, b) == IF a = NaN \/ b = NaN THEN NaN ELSE a + b
NumLess(a, b) == a # NaN /\ b # NaN /\ a < b

-----------------------------------------------------------------------------
(* Sequences *)

RECURSIVE Reverse(_)
Reverse(s) == IF s = << >> THEN << >> ELSE Append(Reverse(Tail(s)), Head(s))

\* Array.prototype.slice(0, n) / the array after k pop()s: pop() on an
\* empty array leaves it empty
PopN(s, k) == SubSeq(s, 1, Max(Len(s) - k, 0))

\* the k-th popped item (k = 1 is the top); only used when Len(s) >= k
Nth(s, k) == s[Len(s) + 1 - k]

Zeros(n) == [i \in 1..n |-> 0]

\* Uint8Array.prototype.slice(from, to) with 0 <= from <= to
Slice(arr, from, to) ==
  SubSeq(arr, Min(from, Len(arr)) + 1, Min(to, Len(arr)))

\* the number a big-endian byte string denotes; leading zero bytes are
\* dropped first
RECURSIVE BigEndian(_)
BigEndian(bs) ==
  IF bs = << >> THEN 0
  ELSE 256 * BigEndian(SubSeq(bs, 1, Len(bs) - 1)) + bs[Len(bs)]

BytesToInt(bs) ==
  LET nonzero == {i \in 1..Len(bs) : bs[i] # 0}
  IN  IF nonzero = {} THEN 0
      ELSE BigEndian(SubSeq(bs, CHOOSE i \in nonzero : \A j \in nonzero : i <= j,
                            Len(bs)))

\* BigInt(uint8ArrayToByteString(bytes)): "0x" + two hex digits per byte,
\* "0x00" for the empty array
uint8ArrayToByteString(bs) == BytesToInt(bs)

\* hexStringToUint8Array(value.toString(16).padStart(2 * n, "0")) for a
\* value below 256^n: the n big-endian bytes of value
RECURSIVE IntToBytes(_, _)
IntToBytes(v, n) ==
  IF n = 0 THEN << >>
  ELSE Append(IntToBytes(v \div 256, n - 1), v % 256)

-----------------------------------------------------------------------------
(* Linear memory (src/opcodes.ts, the helpers after the instruction table) *)

\* memoryExpansionCost(numOfBytes) is floor(w^2 / 512) + 3w with the real
\* number w = (numOfBytes + 31) / 32.  This is 32 times that cost, which is
\* an integer: 32 * floor((n+31)^2 / (1024 * 512)) + 3 * (n+31).
\* With n + 31 = 1024 q + r the square is 2^20 q^2 + 2048 q r + r^2, which
\* keeps every intermediate value within 32-bit integers.
memoryExpansionCost32(numOfBytes) ==
  LET q == (numOfBytes + 31) \div 1024
      r == (numOfBytes + 31) % 1024
  IN  32 * (2 * q * q + (2048 * q * r + r * r) \div (1024 * 512))
        + 3 * (numOfBytes + 31)

\* an expansion to exactly the length asked for, without rounding up to a
\* multiple of 32
expandMemory_NoRounding(prevMemory, newLength) ==
  LET newMemoryLength == Len(prevMemory) + newLength
  IN  [memory  |-> prevMemory \o Zeros(newMemoryLength - Len(prevMemory)),
       gasCost |-> (memoryExpansionCost32(newMemoryLength)
                      - memoryExpansionCost32(Len(prevMemory))) \div 32]

\* expandMemory(prevMemory, newLength).  The memory is only ever replaced by
\* the result of this function, so both lengths are multiples of 32 and
\* gasCost, the difference of the two real costs, is the integer computed
\* here.
expandMemory(prevMemory, newLength) ==
  LET newMemoryLength == ((Len(prevMemory) + newLength + 31) \div 32) * 32
  IN  [memory  |-> prevMemory \o Zeros(newMemoryLength - Len(prevMemory)),
       gasCost |-> (memoryExpansionCost32(newMemoryLength)
                      - memoryExpansionCost32(Len(prevMemory))) \div 32]

\* TypedArray.prototype.set(value, offset) on an array that is long enough
SetBytes(arr, offset, value) ==
  [i \in 1..Len(arr) |->
     IF i > offset /\ i <= offset + Len(value) THEN value[i - offset]
     ELSE arr[i]]

\* setMemorySafely(memory, offset, valueByteArray): set() throws a
\* RangeError when offset + length exceeds the memory, and the catch block
\* expands
setMemorySafely(memory, offset, valueByteArray) ==
  IF offset + Len(valueByteArray) <= Len(memory)
  THEN [memory |-> SetBytes(memory, offset, valueByteArray),
        additionalGas |-> 0]
  ELSE LET result == expandMemory(memory, offset + Len(valueByteArray))
       IN  [memory |-> SetBytes(result.memory, offset, valueByteArray),
            additionalGas |-> result.gasCost]

\* readMemorySafely(memory, offset, size)
readMemorySafely(memory, offset, size) ==
  LET bytesFromMemory == Slice(memory, offset, offset + size)
  IN  IF Len(bytesFromMemory) = size
      THEN [data |-> uint8ArrayToByteString(bytesFromMemory),
            dataArray |-> bytesFromMemory,
            memory |-> memory,
            additionalGas |-> 0]
      ELSE LET result == expandMemory(memory, offset + size)
               full == Slice(result.memory, offset, offset + size)
           IN  [data |-> uint8ArrayToByteString(full),
                dataArray |-> full,
                memory |-> result.memory,
                additionalGas |-> result.gasCost]

-----------------------------------------------------------------------------
(* Opcode bytes: the keys of `instructions` *)

OP_STOP         == 0
OP_ADD          == 1
OP_MUL          == 2
OP_SUB          == 3
OP_DIV          == 4
OP_SDIV         == 5
OP_MOD          == 6
OP_SMOD         == 7
OP_ADDMOD       == 8
OP_MULMOD       == 9
OP_SIGNEXTEND   == 11
OP_BYTE         == 26
OP_SHL          == 27
OP_SHR          == 28
OP_SAR          == 29
OP_BALANCE      == 49
OP_CALLDATACOPY == 55
OP_CODECOPY     == 57
OP_RETURNDATASIZE == 61
OP_RETURNDATACOPY == 62
OP_POP          == 80
OP_MLOAD        == 81
OP_MSTORE       == 82
OP_MSTORE8      == 83
OP_SLOAD        == 84
OP_SSTORE       == 85
OP_JUMP         == 86
OP_JUMPI        == 87
OP_MSIZE        == 89
OP_GAS          == 90
OP_JUMPDEST     == 91
OP_PUSH0        == 95
OP_PUSH1        == 96
OP_PUSH32       == 127
OP_LOG0         == 160
OP_CALL         == 241
OP_RETURN       == 243
OP_DELEGATECALL == 244
OP_STATICCALL   == 250
OP_REVERT       == 253
OP_INVALID      == 254

\* the keys of `instructions`: 0x00-0x0b, 0x10-0x1d, 0x20, 0x30-0x48,
\* 0x50-0x5b, 0x5f-0xa4, 0xf1, 0xf3, 0xf4, 0xfa, 0xfd, 0xfe
MappedOpcodes ==
  (0..11) \cup (16..29) \cup {32} \cup (48..72) \cup (80..91)
    \cup (95..164) \cup {241, 243, 244, 250, 253, 254}

\* instructions[opcode].minimumGas of the opcodes modelled
minimumGas(opcode) ==
  CASE opcode = OP_STOP         -> 0
    [] opcode = OP_ADD          -> 3
    [] opcode \in {OP_MUL, OP_DIV, OP_SDIV, OP_MOD, OP_SMOD, OP_SIGNEXTEND} -> 5
    [] opcode \in {OP_SUB, OP_BYTE, OP_SHL, OP_SHR, OP_SAR} -> 3
    [] opcode \in {OP_ADDMOD, OP_MULMOD} -> 8
    [] opcode = OP_BALANCE      -> 100
    [] opcode \in {OP_CALLDATACOPY, OP_CODECOPY, OP_RETURNDATACOPY} -> 3
    [] opcode = OP_RETURNDATASIZE -> 2
    [] opcode = OP_POP          -> 2
    [] opcode = OP_MLOAD        -> 3
    [] opcode = OP_MSTORE       -> 3
    [] opcode = OP_MSTORE8      -> 3
    [] opcode = OP_MSIZE        -> 2
    [] opcode = OP_SLOAD        -> 100
    [] opcode = OP_SSTORE       -> 100
    [] opcode = OP_JUMP         -> 8
    [] opcode = OP_JUMPI        -> 8
    [] opcode = OP_GAS          -> 2
    [] opcode = OP_JUMPDEST     -> 1
    [] opcode = OP_PUSH0        -> 2
    [] opcode \in OP_PUSH1..OP_PUSH32 -> 3
    [] opcode \in OP_LOG0..(OP_LOG0 + 4) -> 375 * (opcode - OP_LOG0 + 1)
    [] opcode = OP_CALL         -> 100
    [] opcode = OP_RETURN       -> 0
    [] opcode = OP_DELEGATECALL -> 100
    [] opcode = OP_STATICCALL   -> 100
    [] opcode = OP_REVERT       -> 0
    [] opcode = OP_INVALID      -> NaN

-----------------------------------------------------------------------------
(* InstructionOutput *)

NoError == "null"

\* an InstructionOutput without the optional fields: the frame loop keeps
\* the frame's memory and returndata, appends no log and charges no
\* additional gas
Output(f, stack, programCounter, continueExecution, error) ==
  [stack |-> stack,
   programCounter |-> programCounter,
   continueExecution |-> continueExecution,
   error |-> error,
   memory |-> f.memory,
   returndata |-> f.returndata,
   logs |-> << >>,
   additionalGas |-> 0]

Underflow(f, stack) == Output(f, stack, f.programCounter + 1, FALSE, "Stack underflow")

-----------------------------------------------------------------------------
(* The handlers of src/opcodes.ts.  f is the RunState of the frame: its     *)
(* programCounter, stack, memory, returndata, logs and context.  st is     *)
(* context.state when the handler runs.                                    *)

STOP(f) == Output(f, f.stack, f.programCounter + 1, FALSE, NoError)

ADD(f) ==
  IF Len(f.stack) < 2
  THEN Underflow(f, << >>)
  ELSE Output(f, Append(PopN(f.stack, 2), asUintN(Nth(f.stack, 1) + Nth(f.stack, 2))),
              f.programCounter + 1, TRUE, NoError)

\* a division that gives the dividend back when the divisor is zero
Division_ByZeroGivesDividend(opcode, ta, tb) ==
  IF tb = 0 THEN ta
  ELSE IF opcode \in {OP_DIV, OP_SDIV} THEN ta \div tb
  ELSE ta % tb

\* the value pushed by DIV, SDIV, MOD and SMOD for the popped ta (top) and
\* tb.  SDIV and SMOD first read both as signed words (BigInt.asIntN); the
\* bigint operators / and % truncate towards zero, the remainder taking the
\* sign of the dividend.
Division(opcode, ta, tb) ==
  LET asIntN(x) == IF asUintN(x) >= Pow2(WordBits - 1)
                   THEN asUintN(x) - Pow2(WordBits) ELSE asUintN(x)
      signed == opcode \in {OP_SDIV, OP_SMOD}
      a == IF signed THEN asIntN(ta) ELSE ta
      b == IF signed THEN asIntN(tb) ELSE tb
      abs(x) == IF x < 0 THEN 0 - x ELSE x
      quotient == IF (a < 0) = (b < 0) THEN abs(a) \div abs(b)
                  ELSE 0 - (abs(a) \div abs(b))
  IN  IF b = 0 \/ a = 0 THEN 0
      ELSE IF opcode \in {OP_DIV, OP_SDIV} THEN asUintN(quotient)
      ELSE asUintN(a - b * quotient)

\* ADDMOD and MULMOD on a sum and a product reduced to a word first
Modular_WrapsFirst(opcode, a, b, N) ==
  IF N = 0 THEN 0
  ELSE IF opcode = OP_ADDMOD THEN asUintN(asUintN(a + b) % N)
  ELSE asUintN(asUintN(a * b) % N)

\* the value pushed by ADDMOD and MULMOD for the popped a, b and N
Modular(opcode, a, b, N) ==
  IF N = 0 THEN 0
  ELSE IF opcode = OP_ADDMOD THEN asUintN((a + b) % N)
  ELSE asUintN((a * b) % N)

\* shifts that take the count modulo the word size
Shift_WrapsCount(opcode, shift, value) ==
  LET n == shift % WordBits
      isSigned == asUintN(value) >= Pow2(WordBits - 1)
  IN  CASE opcode = OP_SHL ->
             [value |-> asUintN((value % Pow2(WordBits - n)) * Pow2(n)),
              continueExecution |-> TRUE]
        [] opcode = OP_SHR ->
             [value |-> value \div Pow2(n), continueExecution |-> FALSE]
        [] opcode = OP_SAR ->
             [value |-> IF isSigned
                        THEN value \div Pow2(n)
                               + Pow2(WordBits) - Pow2(WordBits - n)
                        ELSE value \div Pow2(n),
              continueExecution |-> isSigned]

\* the value pushed by SHL, SHR and SAR for the popped shift and value, and
\* the continueExecution of the branch taken.  The literals 255 and 256 of
\* the handlers are the word size and become WordBits - 1 and WordBits.
\* value >> shift is 0 for a shift above 30, every stack item of the model
\* being below 2^31; temp | mask is taken on the bits that BigInt.asUintN
\* keeps.
Shift(opcode, shift, value) ==
  LET MAX_UINT256 == Pow2(WordBits) - 1
      Bit(x, i) == (asUintN(x) \div Pow2(i)) % 2
      Or(x, y) ==
        LET S[i \in 0..WordBits] ==
              IF i = 0 THEN 0
              ELSE S[i - 1] + Pow2(i - 1) * Max(Bit(x, i - 1), Bit(y, i - 1))
        IN  S[WordBits]
      ShiftRight(x, n) == IF n > 30 THEN 0 ELSE x \div Pow2(n)
      isSigned == asUintN(value) >= Pow2(WordBits - 1)
  IN  CASE opcode = OP_SHL ->
             IF asUintN(shift) > WordBits - 1
             THEN [value |-> 0, continueExecution |-> TRUE]
             ELSE [value |-> asUintN(asUintN(value) * Pow2(asUintN(shift))),
                   continueExecution |-> TRUE]
        [] opcode = OP_SHR ->
             IF shift > WordBits - 1
             THEN [value |-> 0, continueExecution |-> FALSE]
             ELSE [value |-> asUintN(value \div Pow2(shift)),
                   continueExecution |-> FALSE]
        [] opcode = OP_SAR ->
             IF ~isSigned
             THEN [value |-> asUintN(ShiftRight(value, shift)),
                   continueExecution |-> FALSE]
             ELSE IF shift > WordBits
             THEN [value |-> asUintN(MAX_UINT256), continueExecution |-> FALSE]
             ELSE [value |-> Or(value \div Pow2(shift),
                                MAX_UINT256 * Pow2(WordBits - shift)),
                   continueExecution |-> TRUE]

\* the handlers of MUL, SUB, DIV, SDIV, MOD, SMOD, ADDMOD, MULMOD,
\* SIGNEXTEND, BYTE, SHL, SHR and SAR: pop two operands (three for ADDMOD and
\* MULMOD), return "Stack underflow" with an empty stack (SHL: with the
\* stack as it was) when one is missing, and push one value.  In SIGNEXTEND
\* 1 << bits - 1 is a 32-bit shift, whose count is taken modulo 32 and whose
\* result for the count 31 is -2^31; & and | are taken on the bits that
\* BigInt.asUintN keeps, x being a word.
Arithmetic(opcode, f) ==
  LET arity == IF opcode \in {OP_ADDMOD, OP_MULMOD} THEN 3 ELSE 2
      a == Nth(f.stack, 1)
      b == Nth(f.stack, 2)
      Bit(x, i) == (asUintN(x) \div Pow2(i)) % 2
      And(x, y) ==
        LET S[i \in 0..WordBits] ==
              IF i = 0 THEN 0
              ELSE S[i - 1] + Pow2(i - 1) * Min(Bit(x, i - 1), Bit(y, i - 1))
        IN  S[WordBits]
      Or(x, y) ==
        LET S[i \in 0..WordBits] ==
              IF i = 0 THEN 0
              ELSE S[i - 1] + Pow2(i - 1) * Max(Bit(x, i - 1), Bit(y, i - 1))
        IN  S[WordBits]
      Not(x) == 0 - x - 1
      bits == (a + 1) * 8
      msb == And(IF (bits - 1) % 32 = 31 THEN (0 - Pow2(30)) * 2
                 ELSE Pow2((bits - 1) % 32), b)
      result ==
        CASE opcode = OP_MUL -> [value |-> asUintN(a * b), continueExecution |-> TRUE]
          [] opcode = OP_SUB -> [value |-> asUintN(a - b), continueExecution |-> TRUE]
          [] opcode \in {OP_DIV, OP_SDIV, OP_MOD, OP_SMOD} ->
               [value |-> Division(opcode, a, b), continueExecution |-> TRUE]
          [] opcode \in {OP_ADDMOD, OP_MULMOD} ->
               [value |-> Modular(opcode, a, b, Nth(f.stack, 3)),
                continueExecution |-> TRUE]
          [] opcode = OP_SIGNEXTEND ->
               [value |-> IF ~(a < 31) \/ msb = 0 THEN asUintN(b)
                          ELSE Or(Not(msb), b),
                continueExecution |-> TRUE]
          [] opcode = OP_BYTE ->
               [value |-> IF a < 32 THEN IntToBytes(b, 32)[a + 1] ELSE 0,
                continueExecution |-> FALSE]
          [] opcode \in {OP_SHL, OP_SHR, OP_SAR} -> Shift(opcode, a, b)
  IN  IF Len(f.stack) < arity
      THEN Underflow(f, IF opcode = OP_SHL THEN f.stack ELSE << >>)
      ELSE Output(f, Append(PopN(f.stack, arity), result.value),
                  f.programCounter + 1, result.continueExecution, NoError)

\* state.get(address)?.balance || 0n
BALANCE(f, st) ==
  IF Len(f.stack) < 1
  THEN Underflow(f, << >>)
  ELSE LET address == Nth(f.stack, 1)
       IN  Output(f, Append(PopN(f.stack, 1),
                            IF address \in DOMAIN st THEN st[address].balance ELSE 0),
                  f.programCounter + 1, TRUE, NoError)

RETURNDATASIZE(f) ==
  Output(f, Append(f.stack, Len(f.returndata)), f.programCounter + 1, TRUE, NoError)

\* CALLDATACOPY and CODECOPY: the bytes source.slice(offset, offset + size)
\* of the call data or of the bytecode, followed by zero bytes up to size,
\* are written at destOffset
DataCopy(opcode, f) ==
  IF Len(f.stack) < 3
  THEN Underflow(f, PopN(f.stack, 3))
  ELSE LET destOffset  == Nth(f.stack, 1)
           offset      == Nth(f.stack, 2)
           size        == Nth(f.stack, 3)
           source      == IF opcode = OP_CALLDATACOPY THEN f.context.callData
                          ELSE f.context.bytecode
           copiedBytes == Slice(source, offset, offset + size)
           result      == setMemorySafely(f.memory, destOffset,
                            copiedBytes \o Zeros(size - Len(copiedBytes)))
       IN  [Output(f, PopN(f.stack, 3), f.programCounter + 1, TRUE, NoError)
              EXCEPT !.memory = result.memory,
                     !.additionalGas = result.additionalGas]

\* the bytes are read with readMemorySafely(returndata, offset, size), and
\* the buffer it returns, extended when the range ends beyond the return
\* data, becomes the frame's returndata.  copyResult and pasteResult are
\* bound as values, each computed once.
RETURNDATACOPY(f) ==
  IF Len(f.stack) < 3
  THEN Underflow(f, PopN(f.stack, 3))
  ELSE LET destOffset  == Nth(f.stack, 1)
           offset      == Nth(f.stack, 2)
           size        == Nth(f.stack, 3)
           Paste(copyResult) ==
             CHOOSE out \in
               {[Output(f, PopN(f.stack, 3), f.programCounter + 1, TRUE, NoError)
                   EXCEPT !.memory = pasteResult.memory,
                          !.returndata = copyResult.memory,
                          !.additionalGas = copyResult.additionalGas
                                              + pasteResult.additionalGas] :
                  pasteResult \in {setMemorySafely(f.memory, destOffset,
                                                   copyResult.dataArray)}} : TRUE
       IN  CHOOSE out \in
             {Paste(copyResult) :
                copyResult \in {readMemorySafely(f.returndata, offset, size)}} :
               TRUE

\* stack.slice(0, stack.length - 1): no underflow check
POP(f) == Output(f, PopN(f.stack, 1), f.programCounter + 1, TRUE, NoError)

\* MSTORE writing the 32 bytes of the value least significant first
MSTORE_LittleEndian(f) ==
  IF Len(f.stack) < 2
  THEN Underflow(f, PopN(f.stack, 2))
  ELSE LET offset == Nth(f.stack, 1)
           value  == Nth(f.stack, 2)
           result == setMemorySafely(f.memory, offset,
                                     Reverse(IntToBytes(value, 32)))
       IN  [Output(f, PopN(f.stack, 2), f.programCounter + 1, TRUE, NoError)
              EXCEPT !.memory = result.memory,
                     !.additionalGas = result.additionalGas]

MSTORE(f) ==
  IF Len(f.stack) < 2
  THEN Underflow(f, PopN(f.stack, 2))
  ELSE LET offset == Nth(f.stack, 1)
           value  == Nth(f.stack, 2)
           result == setMemorySafely(f.memory, offset, IntToBytes(value, 32))
       IN  [Output(f, PopN(f.stack, 2), f.programCounter + 1, TRUE, NoError)
              EXCEPT !.memory = result.memory,
                     !.additionalGas = result.additionalGas]

MLOAD(f) ==
  IF Len(f.stack) < 1
  THEN Underflow(f, PopN(f.stack, 1))
  ELSE LET offset == Nth(f.stack, 1)
           result == readMemorySafely(f.memory, offset, 32)
       IN  [Output(f, Append(PopN(f.stack, 1), result.data),
                   f.programCounter + 1, TRUE, NoError)
              EXCEPT !.memory = result.memory,
                     !.additionalGas = result.additionalGas]

\* value.toString(16) for value >= 0: the hexadecimal digits, most
\* significant first
RECURSIVE toString16(_)
toString16(value) ==
  IF value < 16 THEN <<value>>
  ELSE Append(toString16(value \div 16), value % 16)

\* the value is written as hexStringToUint8Array(value.toString(16)
\* .padStart(2, "0")): the string is cut into pairs of digits from the left
\* (match(/../g)), a last single digit is dropped, and every pair is a byte
MSTORE8(f) ==
  IF Len(f.stack) < 2
  THEN Underflow(f, PopN(f.stack, 2))
  ELSE LET offset == Nth(f.stack, 1)
           value  == Nth(f.stack, 2)
           digits == toString16(value)
           hexString == IF Len(digits) < 2 THEN <<0>> \o digits ELSE digits
           valueByteArray ==
             [i \in 1..(Len(hexString) \div 2) |->
                16 * hexString[2 * i - 1] + hexString[2 * i]]
           result == setMemorySafely(f.memory, offset, valueByteArray)
       IN  [Output(f, PopN(f.stack, 2), f.programCounter + 1, TRUE, NoError)
              EXCEPT !.memory = result.memory,
                     !.additionalGas = result.additionalGas]

MSIZE(f) ==
  Output(f, Append(f.stack, Len(f.memory)), f.programCounter + 1, TRUE, NoError)

\* RETURN handing back the whole memory instead of the slice
RETURN_WholeMemory(f) ==
  IF Len(f.stack) < 2
  THEN Underflow(f, PopN(f.stack, 2))
  ELSE LET result == readMemorySafely(f.memory, Nth(f.stack, 1), Nth(f.stack, 2))
       IN  [Output(f, PopN(f.stack, 2), f.programCounter + 1, FALSE, NoError)
              EXCEPT !.memory = result.memory,
                     !.returndata = result.memory]

RETURN(f) ==
  IF Len(f.stack) < 2
  THEN Underflow(f, PopN(f.stack, 2))
  ELSE LET result == readMemorySafely(f.memory, Nth(f.stack, 1), Nth(f.stack, 2))
       IN  [Output(f, PopN(f.stack, 2), f.programCounter + 1, FALSE, NoError)
              EXCEPT !.memory = result.memory,
                     !.returndata = result.dataArray]

REVERT(f) ==
  IF Len(f.stack) < 2
  THEN Underflow(f, PopN(f.stack, 2))
  ELSE LET result == readMemorySafely(f.memory, Nth(f.stack, 1), Nth(f.stack, 2))
       IN  [Output(f, Append(PopN(f.stack, 2), 0), f.programCounter + 1, FALSE,
                   "Execution reverted")
              EXCEPT !.memory = result.memory,
                     !.returndata = result.dataArray]

\* the handler reports "Stack underflow"
INVALID(f) == Output(f, << >>, f.programCounter + 1, FALSE, "Stack underflow")

\* storage of the executing address; `state.get(address)!.storage!` is
\* undefined for an account without a storage map, and get/set on it throws
HasStorage(st, address) == address \in DOMAIN st /\ st[address].hasStorage

\* SLOAD reading the storage of the caller's account
SLOAD_ReadsCaller(f, st) ==
  IF Len(f.stack) < 1
  THEN Underflow(f, << >>)
  ELSE LET key     == Nth(f.stack, 1)
           storage == st[f.context.caller].storage
           value   == IF key \in DOMAIN storage THEN storage[key] ELSE 0
       IN  Output(f, Append(PopN(f.stack, 1), value), f.programCounter + 1,
                  TRUE, NoError)

SLOAD(f, st) ==
  IF Len(f.stack) < 1
  THEN Underflow(f, << >>)
  ELSE LET key     == Nth(f.stack, 1)
           storage == st[f.context.address].storage
           value   == IF key \in DOMAIN storage THEN storage[key] ELSE 0
       IN  Output(f, Append(PopN(f.stack, 1), value), f.programCounter + 1,
                  TRUE, NoError)

SLOAD_throws(f, st) == Len(f.stack) >= 1 /\ ~HasStorage(st, f.context.address)

\* Map.prototype.set(key, value)
StorageSet(storage, key, value) ==
  [k \in (DOMAIN storage) \cup {key} |-> IF k = key THEN value ELSE storage[k]]

\* SSTORE without the isStatic test
SSTORE_NoStaticCheck(f, st) ==
  IF Len(f.stack) < 2
  THEN [out |-> Underflow(f, PopN(f.stack, 2)), state |-> st]
  ELSE [out   |-> Output(f, PopN(f.stack, 2), f.programCounter + 1, TRUE, NoError),
        state |-> [st EXCEPT ![f.context.address].storage =
                                StorageSet(@, Nth(f.stack, 1), Nth(f.stack, 2))]]

\* the handler's InstructionOutput, and the shared state map after its
\* storage.set(key, value)
SSTORE(f, st) ==
  IF f.context.isStatic THEN [out |-> REVERT(f), state |-> st]
  ELSE IF Len(f.stack) < 2
  THEN [out |-> Underflow(f, PopN(f.stack, 2)), state |-> st]
  ELSE [out   |-> Output(f, PopN(f.stack, 2), f.programCounter + 1, TRUE, NoError),
        state |-> [st EXCEPT ![f.context.address].storage =
                                StorageSet(@, Nth(f.stack, 1), Nth(f.stack, 2))]]

SSTORE_throws(f, st) ==
  ~f.context.isStatic /\ Len(f.stack) >= 2 /\ ~HasStorage(st, f.context.address)

\* getValidJumpDests(code): the offsets i with jumps[i] = 1, scanning from
\* offset i
RECURSIVE ValidJumpDestsFrom(_, _)
ValidJumpDestsFrom(code, i) ==
  IF i >= Len(code) THEN {}
  ELSE LET opcode == code[i + 1]
       IN  IF opcode <= 127 /\ opcode >= 96
           THEN ValidJumpDestsFrom(code, i + (opcode - 95) + 1)
           ELSE (IF opcode = 91 THEN {i} ELSE {})
                  \cup ValidJumpDestsFrom(code, i + 1)

\* a scan that takes every byte 0x5b for a destination
getValidJumpDests_EveryByte(code) == {i \in 0..(Len(code) - 1) : code[i + 1] = 91}

getValidJumpDests(code) == ValidJumpDestsFrom(code, 0)

\* Number(tempStack.pop()) is NaN on an empty stack; NaN is a "number", so
\* the underflow branch is never taken and the lookup jumps[NaN] fails
JUMP(f) ==
  IF Len(f.stack) < 1
     \/ Nth(f.stack, 1) \notin getValidJumpDests(f.context.bytecode)
  THEN Output(f, << >>, f.programCounter + 1, FALSE, "Invalid JUMP.")
  ELSE Output(f, PopN(f.stack, 1), Nth(f.stack, 1), TRUE, NoError)

\* b == 0 continues with an empty stack; with one item b is NaN, not 0
JUMPI(f) ==
  IF Len(f.stack) >= 2 /\ Nth(f.stack, 2) = 0
  THEN Output(f, << >>, f.programCounter + 1, TRUE, NoError)
  ELSE IF Len(f.stack) < 1
          \/ Nth(f.stack, 1) \notin getValidJumpDests(f.context.bytecode)
  THEN Output(f, << >>, f.programCounter + 1, FALSE, "Invalid JUMP.")
  ELSE Output(f, PopN(f.stack, 2), Nth(f.stack, 1), TRUE, NoError)

\* gasLeft - 2 < 0 is false for NaN, and BigInt(NaN) throws a RangeError
GAS(f) ==
  IF NumLess(NumSub(f.context.gasLeft, 2), 0)
  THEN Output(f, f.stack, f.programCounter + 1, FALSE, "Out of gas.")
  ELSE Output(f, Append(f.stack, NumSub(f.context.gasLeft, 2)),
              f.programCounter + 1, TRUE, NoError)

GAS_throws(f) == f.context.gasLeft = NaN

JUMPDEST(f) == Output(f, f.stack, f.programCounter + 1, TRUE, NoError)

PUSH0(f) == Output(f, Append(f.stack, 0), f.programCounter + 1, TRUE, NoError)

\* pushN leaving the counter on the first byte of the immediate data
pushN_NoSkip(n, counter, bytecode) ==
  [counter |-> counter + 1,
   value   |-> uint8ArrayToByteString(Slice(bytecode, counter + 1, counter + 1 + n))]

\* pushN(n, counter, bytecode)
pushN(n, counter, bytecode) ==
  [counter |-> counter + 1 + n,
   value   |-> uint8ArrayToByteString(Slice(bytecode, counter + 1, counter + 1 + n))]

\* PUSH1 .. PUSH32: the entry for opcode 0x5f + n calls pushN(n, ...)
PUSHn(n, f) ==
  LET res == pushN(n, f.programCounter, f.context.bytecode)
  IN  Output(f, Append(f.stack, res.value), res.counter, TRUE, NoError)

\* the topics popped by logN's loop
Topics(stack, n) == [i \in 1..n |-> Nth(stack, 2 + i)]

logN(n, f) ==
  IF f.context.isStatic THEN REVERT(f)
  ELSE IF Len(f.stack) < 2 + n THEN Underflow(f, << >>)
  ELSE LET result == readMemorySafely(f.memory, Nth(f.stack, 1), Nth(f.stack, 2))
       IN  [Output(f, PopN(f.stack, 2 + n), f.programCounter + 1, TRUE, NoError)
              EXCEPT !.memory = result.memory,
                     !.logs = << [address |-> f.context.address,
                                  data    |-> result.data,
                                  topics  |-> Topics(f.stack, n)] >>,
                     !.additionalGas = result.additionalGas]

-----------------------------------------------------------------------------
(* CALL, DELEGATECALL and STATICCALL: the part of the handler before the   *)
(* recursive evm(subContext)                                               *)

\* number of stack items the handler pops
CallArity(op) == IF op = OP_CALL THEN 7 ELSE 6

\* the popped arguments, by name
CallArgs(op, stack) ==
  LET k == IF op = OP_CALL THEN 1 ELSE 0
  IN  [callGas    |-> Nth(stack, 1),
       toAddress  |-> Nth(stack, 2),
       callValue  |-> IF op = OP_CALL THEN Nth(stack, 3) ELSE 0,
       argsOffset |-> Nth(stack, 3 + k),
       argsSize   |-> Nth(stack, 4 + k),
       retOffset  |-> Nth(stack, 5 + k),
       retSize    |-> Nth(stack, 6 + k)]

\* if (callGas > (Math.floor(gasLeft - 100)/64))
\*   callGas = BigInt(Math.floor((gasLeft - 100)/64));
\* the comparison is with the real quotient and is false for NaN
CappedCallGas(callGas, gasLeft) ==
  IF gasLeft # NaN /\ 64 * callGas > gasLeft - 100
  THEN (gasLeft - 100) \div 64
  ELSE callGas

\* `let gasConsumed = ...` of the three handlers
InitialGasConsumed(op) == IF op = OP_DELEGATECALL THEN 100 ELSE 0

\* only CALL looks at isStatic, and it does so before reading the value
CallRevertsStatic(op, f) == op = OP_CALL /\ f.context.isStatic

\* context.state.get(toAddress)?.code?.bin
HasCode(st, toAddress) == toAddress \in DOMAIN st /\ st[toAddress].hasCode

\* TRUE when the handler reaches evm(subContext)
CallSpawns(op, f, st) ==
  /\ ~CallRevertsStatic(op, f)
  /\ Len(f.stack) >= CallArity(op)
  /\ HasCode(st, CallArgs(op, f.stack).toAddress)

\* the InstructionOutput of the branches that return before evm(subContext)
CallImmediate(op, f) ==
  IF CallRevertsStatic(op, f) THEN REVERT(f)
  ELSE IF Len(f.stack) < CallArity(op) THEN Underflow(f, << >>)
  ELSE Output(f, PopN(f.stack, CallArity(op)), f.programCounter + 1, TRUE, NoError)

CALL_subContext(context, toAddress, callGas, callValue, callData, destinationCode) ==
  [address   |-> toAddress,
   caller    |-> context.address,
   origin    |-> context.origin,
   isStatic  |-> FALSE,
   gasPrice  |-> context.gasPrice,
   gasLeft   |-> callGas,
   callValue |-> callValue,
   callData  |-> callData,
   bytecode  |-> destinationCode,
   block     |-> context.block]

\* DELEGATECALL building its context as CALL does, at the destination
DELEGATECALL_subContext_AtDestination(context, toAddress, callGas, callValue, callData, destinationCode) ==
  [address   |-> toAddress,
   caller    |-> context.address,
   origin    |-> context.origin,
   isStatic  |-> FALSE,
   gasPrice  |-> context.gasPrice,
   gasLeft   |-> callGas,
   callValue |-> context.callValue,
   callData  |-> callData,
   bytecode  |-> destinationCode,
   block     |-> context.block]

DELEGATECALL_subContext(context, toAddress, callGas, callValue, callData, destinationCode) ==
  [address   |-> context.address,
   caller    |-> context.caller,
   origin    |-> context.origin,
   isStatic  |-> FALSE,
   gasPrice  |-> context.gasPrice,
   gasLeft   |-> callGas,
   callValue |-> context.callValue,
   callData  |-> callData,
   bytecode  |-> destinationCode,
   block     |-> context.block]

STATICCALL_subContext(context, toAddress, callGas, callValue, callData, destinationCode) ==
  [address   |-> toAddress,
   caller    |-> context.address,
   origin    |-> context.origin,
   isStatic  |-> TRUE,
   gasPrice  |-> context.gasPrice,
   gasLeft   |-> callGas,
   callValue |-> context.callValue,
   callData  |-> callData,
   bytecode  |-> destinationCode,
   block     |-> context.block]

SubContext(op, context, toAddress, callGas, callValue, callData, destinationCode) ==
  CASE op = OP_CALL ->
         CALL_subContext(context, toAddress, callGas, callValue, callData, destinationCode)
    [] op = OP_DELEGATECALL ->
         DELEGATECALL_subContext(context, toAddress, callGas, callValue, callData, destinationCode)
    [] op = OP_STATICCALL ->
         STATICCALL_subContext(context, toAddress, callGas, callValue, callData, destinationCode)

\* what the suspended handler keeps in its local variables across
\* evm(subContext)
NoPending ==
  [opcode |-> 0, tempStack |-> << >>, toAddress |-> 0, callGas |-> 0,
   requestedGas |-> 0, retOffset |-> 0, retSize |-> 0, argsGas |-> 0,
   gasConsumed |-> 0]

CallPending(op, f) ==
  LET a        == CallArgs(op, f.stack)
      callGas  == CappedCallGas(a.callGas, f.context.gasLeft)
      callArgs == readMemorySafely(f.memory, a.argsOffset, a.argsSize)
  IN  [opcode       |-> op,
       tempStack    |-> PopN(f.stack, CallArity(op)),
       toAddress    |-> a.toAddress,
       callGas      |-> callGas,
       requestedGas |-> a.callGas,
       retOffset    |-> a.retOffset,
       retSize      |-> a.retSize,
       argsGas      |-> callArgs.additionalGas,
       gasConsumed  |-> InitialGasConsumed(op) + callGas + callArgs.additionalGas]

\* the runState evm() builds for a context
\* via and codeAddress record how the frame came to be: the opcode of the
\* call that created it (0 for the top-level frame) and the account whose
\* code it runs
NewFrame(context, via, codeAddress) ==
  [programCounter |-> 0,
   stack      |-> << >>,
   memory     |-> << >>,
   returndata |-> << >>,
   logs       |-> << >>,
   context    |-> context,
   status     |-> "running",
   success    |-> FALSE,
   error      |-> NoError,
   via        |-> via,
   codeAddress |-> codeAddress,
   pending    |-> NoPending]

SubFrame(op, f, st) ==
  LET a        == CallArgs(op, f.stack)
      callGas  == CappedCallGas(a.callGas, f.context.gasLeft)
      callArgs == readMemorySafely(f.memory, a.argsOffset, a.argsSize)
  IN  NewFrame(SubContext(op, f.context, a.toAddress, callGas, a.callValue,
                          callArgs.dataArray, st[a.toAddress].code),
               op, a.toAddress)

\* the Result evm() returns for a frame that has ended
Result(f) ==
  [success    |-> f.success,
   stack      |-> Reverse(f.stack),
   memory     |-> f.memory,
   gas        |-> f.context.gasLeft,
   returndata |-> f.returndata,
   logs       |-> f.logs]

\* the part of the handler after evm(subContext) returned callResult
CallOutput(f, callResult) ==
  LET p           == f.pending
      used        == NumSub(p.callGas, callResult.gas)
      tempMemory  == setMemorySafely(f.memory, p.retOffset, callResult.returndata)
      gasConsumed == NumAdd(NumSub(p.gasConsumed, used), tempMemory.additionalGas)
  IN  [Output(f, Append(p.tempStack, IF callResult.success THEN 1 ELSE 0),
              f.programCounter + 1, TRUE, NoError)
         EXCEPT !.memory = tempMemory.memory,
                !.returndata = callResult.returndata,
                !.additionalGas = gasConsumed]

-----------------------------------------------------------------------------
(* evm(): one iteration of the frame loop (src/bytecode-parser.ts)         *)

\* lines 99-126: the caller's account is replaced by one with
\* balance - callValue; an account without code is rebuilt from balance and
\* nonce only
SubtractCallValue(st, context) ==
  LET acct == st[context.caller]
  IN  [st EXCEPT ![context.caller] =
         IF acct.hasCode
         THEN [acct EXCEPT !.balance = @ - context.callValue]
         ELSE [balance |-> acct.balance - context.callValue,
               nonce |-> acct.nonce,
               hasCode |-> FALSE, code |-> << >>,
               hasStorage |-> FALSE, storage |-> << >>]]

\* lines 132-133: gasLeft -= minimumGas; if (additionalGas) gasLeft -=
\* additionalGas (0 and NaN are falsy).  The result is kept above GasFloor.
ChargeGas(gasLeft, opcode, additionalGas) ==
  LET g1 == NumSub(gasLeft, minimumGas(opcode))
      g2 == IF additionalGas # 0 /\ additionalGas # NaN
            THEN NumSub(g1, additionalGas) ELSE g1
  IN  IF g2 = NaN THEN NaN ELSE Max(g2, GasFloor)

\* lines 132-184: charge, merge the output into the runState, and end the
\* frame on an error or on continueExecution = false
Merge(f, opcode, out) ==
  [f EXCEPT
     !.context.gasLeft = ChargeGas(f.context.gasLeft, opcode, out.additionalGas),
     !.stack          = out.stack,
     !.programCounter = out.programCounter,
     !.memory         = out.memory,
     !.returndata     = out.returndata,
     !.logs           = f.logs \o out.logs,
     !.status         = IF out.error # NoError \/ ~out.continueExecution
                        THEN "returned" ELSE "running",
     !.success        = (out.error = NoError),
     !.error          = out.error,
     !.pending        = NoPending]

-----------------------------------------------------------------------------
(* Actions *)

Depth == Len(frames)
Top == frames[Depth]

\* the loop condition holds and the byte at the program counter is fetched
Running ==
  /\ ~thrown
  /\ Depth > 0
  /\ Top.status = "running"

Fetch(opcodes) ==
  /\ Running
  /\ Top.programCounter < Len(Top.context.bytecode)
  /\ Top.context.bytecode[Top.programCounter + 1] \in opcodes

Opcode == Top.context.bytecode[Top.programCounter + 1]

\* the state the handler sees: the call value has been subtracted
Entered == SubtractCallValue(state, Top.context)

\* the iteration for a handler that returned `out`, with the storage of the
\* executing account emptied when the handler reports an error
Complete_RollsBack(opcode, out, st) ==
  /\ frames' = [frames EXCEPT ![Depth] = Merge(Top, opcode, out)]
  /\ state' = IF out.error = NoError THEN st
              ELSE [st EXCEPT ![Top.context.address].storage = << >>]
  /\ UNCHANGED thrown

\* the rest of the iteration for a handler that returned `out` and left the
\* world state as `st`
Complete(opcode, out, st) ==
  /\ \E output \in {out} :
       frames' = [frames EXCEPT ![Depth] = Merge(Top, opcode, output)]
  /\ state' = st
  /\ UNCHANGED thrown

\* an exception leaves evm() and every evm() below it: there is no catch
Throw(st) ==
  /\ thrown' = TRUE
  /\ state' = st
  /\ UNCHANGED frames

\* the loop condition programCounter < bytecode.length fails
LoopExit ==
  /\ Running
  /\ Top.programCounter >= Len(Top.context.bytecode)
  /\ frames' = [frames EXCEPT ![Depth].status = "returned",
                              ![Depth].success = TRUE]
  /\ UNCHANGED <<state, thrown>>

\* instructions[opcode] is undefined: reading .implementation throws
Unmapped ==
  /\ Running
  /\ Top.programCounter < Len(Top.context.bytecode)
  /\ Opcode \notin MappedOpcodes
  /\ Throw(Entered)

ExecSTOP == Fetch({OP_STOP}) /\ Complete(OP_STOP, STOP(Top), Entered)

ExecADD == Fetch({OP_ADD}) /\ Complete(OP_ADD, ADD(Top), Entered)

ExecArithmetic ==
  /\ Fetch((OP_MUL..OP_MULMOD) \cup {OP_SIGNEXTEND} \cup (OP_BYTE..OP_SAR))
  /\ Complete(Opcode, Arithmetic(Opcode, Top), Entered)

ExecBALANCE == Fetch({OP_BALANCE}) /\ Complete(OP_BALANCE, BALANCE(Top, Entered), Entered)

ExecRETURNDATASIZE ==
  Fetch({OP_RETURNDATASIZE})
    /\ Complete(OP_RETURNDATASIZE, RETURNDATASIZE(Top), Entered)

ExecCopy ==
  /\ Fetch({OP_CALLDATACOPY, OP_CODECOPY, OP_RETURNDATACOPY})
  /\ Complete(Opcode,
              IF Opcode = OP_RETURNDATACOPY THEN RETURNDATACOPY(Top)
              ELSE DataCopy(Opcode, Top),
              Entered)

ExecPOP == Fetch({OP_POP}) /\ Complete(OP_POP, POP(Top), Entered)

ExecMLOAD == Fetch({OP_MLOAD}) /\ Complete(OP_MLOAD, MLOAD(Top), Entered)

ExecMSTORE == Fetch({OP_MSTORE}) /\ Complete(OP_MSTORE, MSTORE(Top), Entered)

ExecMSTORE8 == Fetch({OP_MSTORE8}) /\ Complete(OP_MSTORE8, MSTORE8(Top), Entered)

ExecMSIZE == Fetch({OP_MSIZE}) /\ Complete(OP_MSIZE, MSIZE(Top), Entered)

ExecSLOAD ==
  /\ Fetch({OP_SLOAD})
  /\ IF SLOAD_throws(Top, Entered)
     THEN Throw(Entered)
     ELSE Complete(OP_SLOAD, SLOAD(Top, Entered), Entered)

ExecSSTORE ==
  /\ Fetch({OP_SSTORE})
  /\ IF SSTORE_throws(Top, Entered)
     THEN Throw(Entered)
     ELSE Complete(OP_SSTORE, SSTORE(Top, Entered).out, SSTORE(Top, Entered).state)

ExecJUMP == Fetch({OP_JUMP}) /\ Complete(OP_JUMP, JUMP(Top), Entered)

ExecJUMPI == Fetch({OP_JUMPI}) /\ Complete(OP_JUMPI, JUMPI(Top), Entered)

ExecGAS ==
  /\ Fetch({OP_GAS})
  /\ IF GAS_throws(Top)
     THEN Throw(Entered)
     ELSE Complete(OP_GAS, GAS(Top), Entered)

ExecJUMPDEST == Fetch({OP_JUMPDEST}) /\ Complete(OP_JUMPDEST, JUMPDEST(Top), Entered)

ExecPUSH0 == Fetch({OP_PUSH0}) /\ Complete(OP_PUSH0, PUSH0(Top), Entered)

ExecPUSH ==
  /\ Fetch(OP_PUSH1..OP_PUSH32)
  /\ Complete(Opcode, PUSHn(Opcode - 95, Top), Entered)

ExecLOG ==
  /\ Fetch(OP_LOG0..(OP_LOG0 + 4))
  /\ Complete(Opcode, logN(Opcode - OP_LOG0, Top), Entered)

ExecRETURN == Fetch({OP_RETURN}) /\ Complete(OP_RETURN, RETURN(Top), Entered)

ExecREVERT == Fetch({OP_REVERT}) /\ Complete(OP_REVERT, REVERT(Top), Entered)

ExecINVALID == Fetch({OP_INVALID}) /\ Complete(OP_INVALID, INVALID(Top), Entered)

\* the handler up to evm(subContext): either it returns an output at once,
\* or the sub-frame is entered and the handler is suspended.  A call nested
\* deeper than the JavaScript stack allows throws a RangeError.
CallStep(op) ==
  /\ IF ~CallSpawns(op, Top, Entered)
     THEN Complete(op, CallImmediate(op, Top), Entered)
     ELSE IF Depth >= MaxDepth
     THEN Throw(Entered)
     ELSE /\ frames' = Append([frames EXCEPT ![Depth].status = "calling",
                                             ![Depth].pending = CallPending(op, Top)],
                              SubFrame(op, Top, Entered))
          /\ state' = Entered
          /\ UNCHANGED thrown

ExecCALL == Fetch({OP_CALL}) /\ CallStep(OP_CALL)

ExecDELEGATECALL == Fetch({OP_DELEGATECALL}) /\ CallStep(OP_DELEGATECALL)

ExecSTATICCALL == Fetch({OP_STATICCALL}) /\ CallStep(OP_STATICCALL)

\* evm(subContext) returned: the handler resumes with callResult and the
\* calling frame finishes the iteration
CallReturn ==
  /\ ~thrown
  /\ Depth >= 2
  /\ Top.status = "returned"
  /\ LET f == frames[Depth - 1]
     IN  frames' = Append(SubSeq(frames, 1, Depth - 2),
                          Merge(f, f.pending.opcode, CallOutput(f, Result(Top))))
  /\ UNCHANGED <<state, thrown>>

Next ==
  \/ LoopExit
  \/ Unmapped
  \/ ExecSTOP
  \/ ExecADD
  \/ ExecArithmetic
  \/ ExecBALANCE
  \/ ExecRETURNDATASIZE
  \/ ExecCopy
  \/ ExecPOP
  \/ ExecMLOAD
  \/ ExecMSTORE
  \/ ExecMSTORE8
  \/ ExecMSIZE
  \/ ExecSLOAD
  \/ ExecSSTORE
  \/ ExecJUMP
  \/ ExecJUMPI
  \/ ExecGAS
  \/ ExecJUMPDEST
  \/ ExecPUSH0
  \/ ExecPUSH
  \/ ExecLOG
  \/ ExecRETURN
  \/ ExecREVERT
  \/ ExecINVALID
  \/ ExecCALL
  \/ ExecDELEGATECALL
  \/ ExecSTATICCALL
  \/ CallReturn

-----------------------------------------------------------------------------
(* Programs and the initial Context *)

\* PUSH1 v or PUSH2 v
Push(v) ==
  IF v < 256 THEN <<OP_PUSH1, v>>
  ELSE IF v < 65536 THEN <<OP_PUSH1 + 1, v \div 256, v % 256>>
  ELSE IF v < 16777216
  THEN <<OP_PUSH1 + 2, v \div 65536, (v \div 256) % 256, v % 256>>
  ELSE <<OP_PUSH1 + 3, v \div 16777216, (v \div 65536) % 256,
         (v \div 256) % 256, v % 256>>

\* SSTORE(key 1, value 7)
StoreProgram == Push(7) \o Push(1) \o <<OP_SSTORE>>
\* LOG0(offset 0, size 0)
LogProgram == Push(0) \o Push(0) \o <<OP_LOG0>>
\* JUMPDEST; PUSH1 0; JUMP
LoopProgram == <<OP_JUMPDEST>> \o Push(0) \o <<OP_JUMP>>
\* REVERT(offset 0, size 32)
RevertProgram == Push(32) \o Push(0) \o <<OP_REVERT>>
\* MSTORE(0, 5); RETURN(offset 0, size 32)
ReturnProgram == Push(5) \o Push(0) \o <<OP_MSTORE>> \o Push(32) \o Push(0) \o <<OP_RETURN>>
InvalidProgram == <<OP_INVALID>>
UnderflowProgram == <<OP_ADD>>
\* 0x0c has no entry in `instructions`
UnmappedProgram == <<12>>
StopProgram == Push(1) \o <<OP_STOP, OP_INVALID>>
\* GAS; POP; SLOAD(1); PUSH1 9; JUMPI; PUSH1 3; PUSH1 4; ADD
MiscProgram ==
  <<OP_GAS, OP_POP>> \o Push(1) \o <<OP_SLOAD>> \o Push(9) \o <<OP_JUMPI>>
    \o Push(3) \o <<OP_JUMPDEST>> \o Push(4) \o <<OP_ADD>>

\* SSTORE(key 1, value 7), then REVERT(offset 0, size 0)
StoreRevertProgram == StoreProgram \o Push(0) \o Push(0) \o <<OP_REVERT>>
\* SSTORE(key 1, value 7), then ADD on the empty stack
StoreFailProgram == StoreProgram \o <<OP_ADD>>

\* the arguments are pushed in reverse order of the pops
CallProgram(op, gas, to, value, argsSize) ==
  Push(32) \o Push(0) \o Push(argsSize) \o Push(0)
    \o (IF op = OP_CALL THEN Push(value) ELSE << >>)
    \o Push(to) \o Push(gas) \o <<op>>

CallOps == {OP_CALL, OP_DELEGATECALL, OP_STATICCALL}

Sender       == 0
TopAddress   == 1
StoreAddress == 2
LogAddress   == 3
LoopAddress  == 4
NoAccount    == 99

\* the code of the accounts other than the top-level contract
Library ==
  [a \in 2..18 |->
     CASE a = StoreAddress -> StoreProgram
       [] a = LogAddress   -> LogProgram
       [] a = LoopAddress  -> LoopProgram
       [] a = 5  -> RevertProgram
       [] a = 6  -> ReturnProgram
       [] a = 7  -> InvalidProgram
       [] a = 8  -> UnderflowProgram
       [] a = 9  -> UnmappedProgram
       [] a = 10 -> StopProgram
       [] a = 11 -> StoreProgram
       [] a = 12 -> CallProgram(OP_DELEGATECALL, 500, StoreAddress, 0, 0)
       [] a = 13 -> CallProgram(OP_CALL, 500, StoreAddress, 0, 0)
       [] a = 14 -> CallProgram(OP_STATICCALL, 500, StoreAddress, 0, 0)
       [] a = 15 -> CallProgram(OP_DELEGATECALL, 500, LogAddress, 0, 0)
       [] a = 16 -> CallProgram(OP_STATICCALL, 500, 12, 0, 0)
       [] a = 17 -> StoreRevertProgram
       [] a = 18 -> StoreFailProgram]

\* account 11 has code but no storage map
Account(balance, code, hasStorage) ==
  [balance |-> balance, nonce |-> 0,
   hasCode |-> TRUE, code |-> code,
   hasStorage |-> hasStorage, storage |-> << >>]

World(topCode) ==
  [a \in 0..18 |->
     IF a = Sender
     THEN [balance |-> 10, nonce |-> 0, hasCode |-> FALSE, code |-> << >>,
           hasStorage |-> FALSE, storage |-> << >>]
     ELSE IF a = TopAddress THEN Account(5, topCode, TRUE)
     ELSE Account(0, Library[a], a # 11)]

Block0 ==
  [basefee |-> 0, coinbase |-> 0, timestamp |-> 0, number |-> 0,
   difficulty |-> 0, gasLimit |-> 0, chainId |-> 1]

\* RETURNDATASIZE, then SLOAD(key 1)
ReadProgram == <<OP_RETURNDATASIZE>> \o Push(1) \o <<OP_SLOAD>>

\* MSTORE(0, 7), then STATICCALL of account 6, which returns the 32-byte
\* word 5, with retOffset 0 and retSize 1
ShortRetProgram ==
  Push(7) \o Push(0) \o <<OP_MSTORE>>
    \o Push(1) \o Push(0) \o Push(0) \o Push(0) \o Push(6) \o Push(31000)
    \o <<OP_STATICCALL>>

\* PUSH1 0x5b; PUSH1 dest; JUMP; STOP; JUMPDEST; STOP: offset 1 holds the
\* byte 0x5b as push data, offset 6 is the JUMPDEST
JumpProgram(dest) ==
  <<OP_PUSH1, OP_JUMPDEST>> \o Push(dest) \o <<OP_JUMP, OP_STOP, OP_JUMPDEST, OP_STOP>>

\* PUSH1 0x5b; PUSH1 b; PUSH1 dest; JUMPI; STOP; JUMPDEST; STOP: offset 1
\* holds the byte 0x5b as push data, offset 8 is the JUMPDEST
JumpiProgram(dest, b) ==
  <<OP_PUSH1, OP_JUMPDEST>> \o Push(b) \o Push(dest)
    \o <<OP_JUMPI, OP_STOP, OP_JUMPDEST, OP_STOP>>

JumpPrograms ==
  {JumpProgram(dest) : dest \in 0..9}
    \cup {JumpiProgram(dest, b) : dest \in 0..9, b \in {0, 1}}

\* POP on the empty stack, then PUSH1 1
PopProgram == <<OP_POP>> \o Push(1)

\* PUSH0, 1025 times
DeepPushProgram == [i \in 1..1025 |-> OP_PUSH0]

\* PUSH0 ten times, then BALANCE of account 0, the top-level caller
BalanceProgram == [i \in 1..11 |-> OP_PUSH0] \o <<OP_BALANCE>>

\* PUSH b; PUSH a; op, with PUSH N first for ADDMOD and MULMOD: operands at
\* both ends of the word range and of the signed range, byte counts around
\* 31 and shifts around the word size.  The products and powers of two that
\* the handlers compute stay below 2^31.  SHR, BYTE and SAR are also
\* followed by further instructions: PUSH x; PUSH s; SHR; PUSH s; SHL, and
\* BYTE or SAR and a PUSH1 after it.  The last program is PUSH1 0; PUSH1 0;
\* DIV; PUSH1 0; MSTORE; PUSH1 32; PUSH1 0; RETURN.
ArithmeticPrograms ==
  LET top    == Pow2(WordBits) - 1
      half   == Pow2(WordBits - 1)
      words  == {0, 1, 2, 3, half, top}
      bytes  == {0, 127, 128, 255, 383, 384, half, top}
      shifts == {1, WordBits - 1, WordBits, WordBits + 1, top}
  IN  {Push(b) \o Push(a) \o <<op>> :
         a \in words, b \in words,
         op \in {OP_ADD, OP_SUB, OP_DIV, OP_SDIV, OP_MOD, OP_SMOD}}
      \cup
      {Push(b) \o Push(a) \o <<OP_MUL>> :
         a \in {0, 1, 2, 3}, b \in words}
      \cup
      {Push(N) \o Push(b) \o Push(a) \o <<OP_ADDMOD>> :
         a \in {1, half, top}, b \in {1, half, top}, N \in {0, 1, 3, top}}
      \cup
      {Push(N) \o Push(b) \o Push(a) \o <<OP_MULMOD>> :
         a \in {0, 2, 3}, b \in {1, half, top}, N \in {0, 1, 3, top}}
      \cup
      {Push(x) \o Push(b) \o <<OP_SIGNEXTEND>> :
         b \in {0, 1, 31, top}, x \in bytes \cup {32767, 32768}}
      \cup
      {Push(x) \o Push(s) \o <<op>> :
         s \in shifts \ {1}, x \in words, op \in {OP_SHR, OP_SAR}}
      \cup
      {Push(x) \o Push(s) \o <<op>> :
         s \in {1}, x \in {0, 1, 2, 3}, op \in {OP_SHL, OP_SHR, OP_SAR}}
      \cup
      {Push(x) \o Push(s) \o <<OP_SHL>> :
         s \in shifts \ {1, WordBits - 1}, x \in words}
      \cup
      {Push(x) \o Push(s) \o <<OP_SHR>> \o Push(s) \o <<OP_SHL>> :
         s \in {1, 4}, x \in {5, 255, top}}
      \cup
      {Push(x) \o Push(i) \o <<OP_BYTE>> \o Push(1) :
         i \in {0, 1, 29, 31, 32}, x \in {5, 258, top}}
      \cup
      {Push(x) \o Push(s) \o <<OP_SAR>> \o Push(1) :
         s \in {0, 1, 4}, x \in {5, 258}}
      \cup
      {Push(0) \o Push(0) \o <<OP_DIV>> \o Push(0) \o <<OP_MSTORE>>
         \o Push(32) \o Push(0) \o <<OP_RETURN>>}

\* PUSH1 1; PUSH3 0x010000; MSTORE
ExpansionProgram == Push(1) \o Push(65536) \o <<OP_MSTORE>>

\* MSTORE(o, v); MLOAD(o); MSIZE, the same with an MSTORE8 next to the word
\* in between, and MSTORE(0, all ones); MSTORE8(o, v); MSIZE
MemoryPrograms ==
  LET offsets == {0, 1, 31, 33}
      values  == {0, 1, 255, 4660, Pow2(WordBits) - 1}
      small   == {18, 256, 291, 4660}
  IN  {Push(v) \o Push(o) \o <<OP_MSTORE>> \o Push(o) \o <<OP_MLOAD, OP_MSIZE>> :
         o \in offsets, v \in values}
      \cup
      {Push(v) \o Push(o) \o <<OP_MSTORE>> \o Push(9) \o Push(o + 32)
         \o <<OP_MSTORE8>> \o Push(o) \o <<OP_MLOAD, OP_MSIZE>> :
         o \in {1}, v \in values}
      \cup
      {Push(Pow2(WordBits) - 1) \o Push(0) \o <<OP_MSTORE>>
         \o Push(v) \o Push(o) \o <<OP_MSTORE8, OP_MSIZE>> :
         o \in {0, 30, 31, 32}, v \in small}
      \cup {ExpansionProgram}

\* RETURN(o, n) and REVERT(o, n) on the empty memory and after
\* MSTORE(0, 0x0102): ranges inside the memory, across its end and beyond
\* it.  The bytes read, taken as one number, stay below 2^31.
ReturnPrograms ==
  {pre \o Push(n) \o Push(o) \o <<op>> :
     pre \in {<< >>, Push(258) \o Push(0) \o <<OP_MSTORE>>},
     o \in {0, 30, 31, 32, 40}, n \in {0, 1, 4},
     op \in {OP_RETURN, OP_REVERT}}
  \cup
  {pre \o Push(33) \o Push(o) \o <<op>> :
     pre \in {<< >>, Push(258) \o Push(0) \o <<OP_MSTORE>>},
     o \in {0, 32}, op \in {OP_RETURN, OP_REVERT}}

\* CALLDATACOPY and CODECOPY of size bytes to destOffset on the empty
\* memory; a STATICCALL of account 10, which returns no data, with retOffset
\* 64 and retSize 0; and a STATICCALL of account 6, which returns the
\* 32-byte word 5, followed by RETURNDATASIZE, RETURNDATACOPY(destOffset,
\* offset, size) and RETURNDATASIZE
CopyPrograms ==
  {Push(size) \o Push(0) \o Push(destOffset) \o <<op>> \o <<OP_MSIZE>> :
     size \in {0, 4}, destOffset \in {0, 64},
     op \in {OP_CALLDATACOPY, OP_CODECOPY}}
  \cup
  {Push(0) \o Push(64) \o Push(0) \o Push(0) \o Push(10) \o Push(500)
     \o <<OP_STATICCALL, OP_MSIZE>>}
  \cup
  {Push(32) \o Push(0) \o Push(0) \o Push(0) \o Push(6) \o Push(31000)
     \o <<OP_STATICCALL, OP_RETURNDATASIZE>>
     \o Push(r[2]) \o Push(r[1]) \o Push(destOffset)
     \o <<OP_RETURNDATACOPY, OP_RETURNDATASIZE>> :
     r \in {<<0, 32>>, <<0, 0>>, <<31, 1>>, <<0, 33>>, <<32, 1>>, <<40, 0>>},
     destOffset \in {0, 64}}

\* SSTORE and LOG1 with too few operands
ShortStoreProgram == Push(1) \o <<OP_SSTORE>>
ShortLogProgram == Push(0) \o <<OP_LOG0 + 1>>
\* SSTORE(key 1, value GAS), then DELEGATECALL to the contract's own address
SelfDelegateProgram ==
  <<OP_GAS>> \o Push(1) \o <<OP_SSTORE>>
    \o CallProgram(OP_DELEGATECALL, 31000, TopAddress, 0, 0)

LeafPrograms ==
  JumpPrograms \cup MemoryPrograms \cup ArithmeticPrograms \cup ReturnPrograms \cup
  CopyPrograms \cup
  {StoreProgram, LogProgram, LoopProgram, RevertProgram, ReturnProgram,
   InvalidProgram, UnderflowProgram, UnmappedProgram, StopProgram,
   MiscProgram, ShortStoreProgram, ShortLogProgram, SelfDelegateProgram,
   ReadProgram, ShortRetProgram, PopProgram, DeepPushProgram,
   BalanceProgram, << >>}

\* a top-level program that makes one call, alone, after an SSTORE, before
\* one, or before reading the return data size and the storage
TopCallProgram(d) ==
  LET call == CallProgram(d.op, d.gas, d.to, d.value, 32)
  IN  CASE d.shape = "call"       -> call
        [] d.shape = "store-call" -> StoreProgram \o call
        [] d.shape = "call-store" -> call \o StoreProgram
        [] d.shape = "call-read"  -> call \o ReadProgram
        [] d.shape = "store-call-read" -> StoreProgram \o call \o ReadProgram

CallDescriptors ==
  {d \in [op: CallOps, gas: {0, 31000}, to: (1..18) \cup {NoAccount},
          value: {0, 1},
          shape: {"call", "store-call", "call-store", "call-read",
                  "store-call-read"}] :
     /\ d.op # OP_CALL => d.value = 0
     /\ d.shape = "store-call-read" => d.gas = 31000 /\ d.value = 0}

\* the programs that are also run with too little gas
LowGasPrograms ==
  {StoreProgram, LoopProgram, UnderflowProgram, InvalidProgram, MiscProgram,
   SelfDelegateProgram}

\* a program that loops runs with a zero call value (the balance is an
\* unbounded bigint) and with the smaller gas; the long program runs in one
\* context
LeafScenarios ==
  {sc \in [code: LeafPrograms, gasLeft: {20, 7000, 30000}, callValue: {0, 1},
           isStatic: BOOLEAN] :
     /\ sc.gasLeft = 20 => sc.code \in LowGasPrograms
     /\ sc.gasLeft = 30000 <=> sc.code = ExpansionProgram
     /\ sc.code \in ArithmeticPrograms => sc.callValue = 0 /\ ~sc.isStatic
     /\ sc.code = LoopProgram => sc.callValue = 0 /\ sc.gasLeft = 20
     /\ sc.code = DeepPushProgram => sc.callValue = 0 /\ ~sc.isStatic}

CallScenarios ==
  {sc \in [d: CallDescriptors, gasLeft: {7000, 2000000}, callValue: {0, 1},
           isStatic: BOOLEAN] :
     sc.d.to = LoopAddress =>
       sc.callValue = 0 /\ sc.d.value = 0 /\ sc.gasLeft = 7000}

TopContext(code, gasLeft, callValue, isStatic) ==
  [address   |-> TopAddress,
   caller    |-> Sender,
   origin    |-> Sender,
   isStatic  |-> isStatic,
   gasPrice  |-> 1,
   gasLeft   |-> gasLeft,
   callValue |-> callValue,
   callData  |-> << >>,
   bytecode  |-> code,
   block     |-> Block0]

Start(code, gasLeft, callValue, isStatic) ==
  /\ frames = << NewFrame(TopContext(code, gasLeft, callValue, isStatic), 0, TopAddress) >>
  /\ state = World(code)
  /\ thrown = FALSE

Init ==
  \/ \E sc \in LeafScenarios :
       Start(sc.code, sc.gasLeft, sc.callValue, sc.isStatic)
  \/ \E sc \in CallScenarios :
       Start(TopCallProgram(sc.d), sc.gasLeft, sc.callValue, sc.isStatic)

Spec == Init /\ [][Next]_vars

\* the scenarios the termination of evm() is checked on: every program run
\* alone with little gas, and every single call
LiveInit ==
  \/ \E sc \in LeafScenarios :
       /\ sc.gasLeft = (IF sc.code \in LowGasPrograms THEN 20 ELSE 7000)
       /\ sc.callValue = 0 /\ ~sc.isStatic
       /\ Start(sc.code, sc.gasLeft, sc.callValue, sc.isStatic)
  \/ \E sc \in CallScenarios :
       /\ sc.gasLeft = 7000 /\ sc.callValue = 0 /\ ~sc.isStatic
       /\ sc.d.gas = 0 /\ sc.d.value = 0 /\ sc.d.shape = "call"
       /\ Start(TopCallProgram(sc.d), sc.gasLeft, sc.callValue, sc.isStatic)

\* evm() is a sequential program: it takes its next step whenever it has one
LiveSpec == LiveInit /\ [][Next]_vars /\ WF_vars(Next)

\* the top-level evm() returned its Result
Halted == Depth = 1 /\ Top.status = "returned"

-----------------------------------------------------------------------------
(* Claims *)

\* the frames that exist before and after a step, by position
Common == 1..Min(Len(frames), Len(frames'))

\* frame i finished an instruction in this step: an ordinary handler ran in
\* the executing frame, or a sub-call returned into the suspended one
Executed(i) ==
  \/ /\ i = Depth
     /\ Len(frames') = Depth
     /\ frames[i].status = "running"
     /\ frames[i].programCounter < Len(frames[i].context.bytecode)
     /\ frames'[i] # frames[i]
  \/ /\ i = Depth - 1
     /\ Len(frames') = Depth - 1
     /\ frames[i].status = "calling"

StorageOf(st) == [a \in DOMAIN st |-> st[a].storage]

\* C1: for every bytecode, world state and finite initial gasLeft evm()
\* terminates; a program that loops forever is stopped by gas exhaustion.
C1_EvmTerminates == <>(Halted \/ thrown)

\* C2: whenever charging an instruction makes the frame's gasLeft negative,
\* the frame ends at that instruction with success = false, and the
\* instruction's stack, program counter, memory, returndata, logs and storage
\* writes are not applied.
C2_OutOfGasDiscards ==
  [][\A i \in Common :
       (Executed(i)
          /\ frames[i].context.gasLeft # NaN
          /\ frames[i].context.gasLeft >= 0
          /\ NumLess(frames'[i].context.gasLeft, 0))
       => /\ frames'[i].status = "returned"
          /\ ~frames'[i].success
          /\ frames'[i].stack = frames[i].stack
          /\ frames'[i].programCounter = frames[i].programCounter
          /\ frames'[i].memory = frames[i].memory
          /\ frames'[i].returndata = frames[i].returndata
          /\ frames'[i].logs = frames[i].logs
          /\ StorageOf(state') = StorageOf(state)]_vars

\* C3: a frame that ends with a fatal error other than REVERT (stack
\* underflow, invalid jump, INVALID, out of gas) reports gas 0 in its Result;
\* a frame that ends by REVERT reports the gas it has left, as Result does
\* for every ending.
C3_FatalErrorConsumesAllGas ==
  \A i \in 1..Depth :
    (frames[i].status = "returned"
       /\ frames[i].error \notin {NoError, "Execution reverted"})
    => Result(frames[i]).gas = 0

\* C4: a frame's gasLeft never increases: after every executed instruction,
\* a returned CALL, DELEGATECALL or STATICCALL included, it is at most what it
\* was before the instruction.
C4_GasNeverIncreases ==
  [][\A i \in Common :
       ~NumLess(frames[i].context.gasLeft, frames'[i].context.gasLeft)]_vars

\* the step in which a sub-call returns into the calling frame
Returning == ~thrown /\ Depth >= 2 /\ Top.status = "returned" /\ Len(frames') = Depth - 1

\* a gasLeft that the out-of-gas condition does not concern
Funded(gasLeft) == gasLeft # NaN /\ gasLeft >= 0

\* C5: after a call to an account with code the caller's gasLeft is its
\* gasLeft before the instruction minus (100 + the caller's memory expansion
\* cost + the gas the sub-frame used), gas used being the gas forwarded minus
\* the sub-frame's remaining gas.  Stated for the sub-frames that end with
\* gas left, where neither frame runs out of gas.
C5_UnusedGasRefunded ==
  [][(Returning /\ Funded(Top.context.gasLeft)
        /\ Funded(frames'[Depth - 1].context.gasLeft)) =>
       LET f        == frames[Depth - 1]
           retGas   == setMemorySafely(f.memory, f.pending.retOffset,
                                       Top.returndata).additionalGas
           used     == f.pending.callGas - Top.context.gasLeft
       IN  frames'[Depth - 1].context.gasLeft
             = f.context.gasLeft - (100 + f.pending.argsGas + retGas + used)]_vars

\* the executing frame is nested below a frame that STATICCALL created
BelowStaticCall == \E j \in 1..(Depth - 1) : frames[j].via = OP_STATICCALL

\* C6: while a frame created by STATICCALL is on the call stack, no frame
\* nested below it at any depth changes any account's storage or appends a
\* log.  Stated for the steps that leave the executing frame with gas.
C6_StaticPropagates ==
  [][(BelowStaticCall /\ Len(frames') >= Depth
        /\ Funded(frames'[Depth].context.gasLeft)) =>
       /\ StorageOf(state') = StorageOf(state)
       /\ \A i \in Common : frames'[i].logs = frames[i].logs]_vars

\* the executing frame is static and is about to execute SSTORE or LOGn
StaticWrite ==
  /\ Fetch({OP_SSTORE} \cup (OP_LOG0..(OP_LOG0 + 4)))
  /\ Top.context.isStatic

\* C7: SSTORE or LOG0..LOG4 executed in a frame whose isStatic flag is true
\* ends that frame unsuccessfully, through the REVERT handler, and leaves the
\* storage of every account and the frame's log list unchanged.
C7_StaticWriteReverts ==
  [][StaticWrite =>
       /\ ~thrown'
       /\ Len(frames') = Depth
       /\ frames'[Depth].status = "returned"
       /\ ~frames'[Depth].success
       /\ frames'[Depth].error =
            (IF Len(Top.stack) >= 2 THEN "Execution reverted" ELSE "Stack underflow")
       /\ StorageOf(state') = StorageOf(state)
       /\ frames'[Depth].logs = Top.logs]_vars

\* a frame that STATICCALL created has ended in the REVERT that its SSTORE
\* turned into, and no storage was written
C7_Witness ==
  /\ Depth >= 2
  /\ Top.via = OP_STATICCALL
  /\ Top.context.isStatic
  /\ Top.status = "returned"
  /\ Top.error = "Execution reverted"
  /\ Top.programCounter >= 1
  /\ Top.context.bytecode[Top.programCounter] = OP_SSTORE
  /\ \A a \in DOMAIN state : state[a].storage = << >>

\* C8: in a static frame CALL with value 0 is permitted and runs the callee
\* in a sub-frame whose isStatic is true.
C8_StaticCallZeroValue ==
  [][(/\ Fetch({OP_CALL})
      /\ Top.context.isStatic
      /\ Len(Top.stack) >= 7
      /\ CallArgs(OP_CALL, Top.stack).callValue = 0
      /\ HasCode(state, CallArgs(OP_CALL, Top.stack).toAddress)
      /\ Depth < MaxDepth) =>
       /\ Len(frames') = Depth + 1
       /\ frames'[Depth + 1].context.isStatic
       /\ frames'[Depth + 1].context.address = CallArgs(OP_CALL, Top.stack).toAddress]_vars

\* C9: the sub-frame created by STATICCALL has address = toAddress, caller =
\* the calling frame's address, callValue = 0 and isStatic = true, with
\* origin, gasPrice and block copied from the caller.
C9_StaticCallContext ==
  \A i \in 2..Depth :
    frames[i].via = OP_STATICCALL =>
      LET c == frames[i].context
          p == frames[i - 1].context
      IN  /\ c.address = frames[i].codeAddress
          /\ c.caller = p.address
          /\ c.callValue = 0
          /\ c.isStatic
          /\ c.origin = p.origin
          /\ c.gasPrice = p.gasPrice
          /\ c.block = p.block

\* the sub-frame created by DELEGATECALL keeps the calling frame's address,
\* caller and callValue and runs the destination account's code
DelegateKeepsContext ==
  \A i \in 2..Depth :
    frames[i].via = OP_DELEGATECALL =>
      LET c == frames[i].context
          p == frames[i - 1].context
      IN  /\ c.address = p.address
          /\ c.caller = p.caller
          /\ c.callValue = p.callValue
          /\ c.bytecode = state[frames[i].codeAddress].code

\* the delegate-called code is about to write storage with SSTORE
DelegateStore ==
  /\ Fetch({OP_SSTORE})
  /\ Top.via = OP_DELEGATECALL
  /\ ~Top.context.isStatic
  /\ Len(Top.stack) >= 2
  /\ HasStorage(state, Top.context.address)

\* C10 as claimed: the sub-frame created by DELEGATECALL keeps the calling
\* frame's address, caller and callValue and runs the destination account's
\* code, so its SSTORE writes the calling contract's storage and leaves the
\* destination account's storage unchanged.
C10_DelegateStoreAsClaimed ==
  /\ []DelegateKeepsContext
  /\ [][DelegateStore =>
          /\ state'[Top.context.address].storage
               = StorageSet(state[Top.context.address].storage,
                            Nth(Top.stack, 1), Nth(Top.stack, 2))
          /\ state'[Top.codeAddress].storage = state[Top.codeAddress].storage]_vars

\* C10 amended: ... its SSTORE writes the calling contract's storage and
\* leaves the storage of every other account unchanged, the destination
\* account's included unless the contract delegate-called its own address.
C10_DelegateStore ==
  /\ []DelegateKeepsContext
  /\ [][DelegateStore =>
          /\ state'[Top.context.address].storage
               = StorageSet(state[Top.context.address].storage,
                            Nth(Top.stack, 1), Nth(Top.stack, 2))
          /\ \A a \in DOMAIN state :
               a # Top.context.address => state'[a].storage = state[a].storage]_vars

\* code delegate-called from another account has executed its SSTORE: the
\* calling contract's storage holds the value and the destination's is empty
C10_Witness ==
  /\ Depth >= 2
  /\ Top.via = OP_DELEGATECALL
  /\ Top.codeAddress = StoreAddress
  /\ Top.context.address # StoreAddress
  /\ Top.context.address = frames[Depth - 1].context.address
  /\ Top.programCounter = Len(StoreProgram)
  /\ state[Top.context.address].storage = StorageSet(<< >>, 1, 7)
  /\ state[StoreAddress].storage = << >>


\* a sub-frame's instruction ends the sub-frame in this step, by returning a
\* Result or by an exception
SubFrameEnds ==
  /\ ~thrown
  /\ Depth >= 2
  /\ Top.status = "running"
  /\ \/ thrown'
     \/ Len(frames') = Depth /\ frames'[Depth].status = "returned"

\* C11: after CALL, DELEGATECALL or STATICCALL to an account with code the
\* caller pushes 1 if the sub-frame succeeded and 0 if it ended with any error
\* or REVERT, continues at the next instruction, and its returndata buffer is
\* the sub-frame's returndata, whose length RETURNDATASIZE then pushes.
C11_CallResult ==
  [][/\ SubFrameEnds => ~thrown'
     /\ Returning =>
          LET f == frames[Depth - 1]
              g == frames'[Depth - 1]
          IN  /\ g.status = "running"
              /\ g.stack = Append(f.pending.tempStack,
                                  IF Top.success THEN 1 ELSE 0)
              /\ g.programCounter = f.programCounter + 1
              /\ g.returndata = Top.returndata
     /\ (Fetch({OP_RETURNDATASIZE}) /\ Len(frames') = Depth) =>
          frames'[Depth].stack = Append(Top.stack, Len(Top.returndata))]_vars

\* the executing frame is about to execute a call whose destination account
\* has no code
CallsNoCode ==
  /\ Fetch(CallOps)
  /\ ~CallRevertsStatic(Opcode, Top)
  /\ Len(Top.stack) >= CallArity(Opcode)
  /\ ~HasCode(state, CallArgs(Opcode, Top.stack).toAddress)

\* C12: CALL, DELEGATECALL or STATICCALL to a destination account that has
\* no code pops its arguments, pushes 1 onto the caller's stack and executes
\* no sub-frame.
C12_CallNoCode ==
  [][CallsNoCode =>
       /\ Len(frames') = Depth
       /\ frames'[Depth].stack = Append(PopN(Top.stack, CallArity(Opcode)), 1)]_vars

\* the byte at offset i of a memory, 0 beyond its length
ByteAt(memory, i) == IF i < Len(memory) THEN memory[i + 1] ELSE 0

\* C13: when a sub-call returns, exactly min(retSize, returndata.length)
\* bytes of the sub-frame's returndata are copied into the caller's memory
\* starting at retOffset; every caller memory byte outside that range keeps
\* the value it had before the call.
C13_ReturnDataCopied ==
  [][Returning =>
       LET f      == frames[Depth - 1]
           g      == frames'[Depth - 1]
           from   == f.pending.retOffset
           copied == Min(f.pending.retSize, Len(Top.returndata))
       IN  \A i \in 0..(Max(Len(f.memory), Len(g.memory)) - 1) :
             ByteAt(g.memory, i) =
               (IF i >= from /\ i < from + copied
                THEN Top.returndata[i - from + 1]
                ELSE ByteAt(f.memory, i))]_vars

\* the executing frame's call creates a sub-frame in this step
Spawning ==
  /\ Fetch(CallOps)
  /\ ~thrown'
  /\ Len(frames') = Depth + 1

\* C14: the gas given to a sub-frame by CALL, DELEGATECALL or STATICCALL is
\* min(requested gas, (gasLeft - 100) * 63/64) of the calling frame, the
\* 63/64 rule (rounded down).
C14_SixtyThreeSixtyFourths ==
  [][(Spawning /\ Funded(Top.context.gasLeft - 100)) =>
       frames'[Depth + 1].context.gasLeft
         = Min(CallArgs(Opcode, Top.stack).callGas,
               ((Top.context.gasLeft - 100) * 63) \div 64)]_vars

\* the logs held by the frames of the call stack, the outermost frame's
\* first: the logs of the nested execution in the order of their LOG
\* instructions
AllLogs ==
  LET Cat[i \in 0..Depth] ==
        IF i = 0 THEN << >> ELSE Cat[i - 1] \o frames[i].logs
  IN  Cat[Depth]

IsPrefix(a, b) == Len(a) <= Len(b) /\ SubSeq(b, 1, Len(a)) = a

\* C15: the logs of the top-level Result contain every log emitted by a LOG
\* instruction in any frame of the nested execution, in the order the LOG
\* instructions executed: no step removes or reorders a log that was
\* emitted, a sub-call's return included.  Stated for the steps taken while
\* every frame has gas left.
C15_LogsInOrder ==
  [][(\A i \in 1..Depth : Funded(frames[i].context.gasLeft)) =>
       IsPrefix(AllLogs, AllLogs')]_vars

\* the executing frame is about to write storage with SSTORE
StoreStep ==
  /\ Fetch({OP_SSTORE})
  /\ ~Top.context.isStatic
  /\ Len(Top.stack) >= 2
  /\ HasStorage(state, Top.context.address)

\* C16: storage writes are never rolled back.  The only step that changes
\* any account's storage is an SSTORE, which sets its key; the step that ends
\* a frame by REVERT or by a fatal error and the return into the caller change
\* none, so the written value stays in the shared state, where the caller's
\* SLOAD reads it.
C16_NoRollback ==
  [][/\ \/ StorageOf(state') = StorageOf(state)
        \/ /\ StoreStep
           /\ StorageOf(state') =
                [StorageOf(state) EXCEPT ![Top.context.address] =
                   StorageSet(@, Nth(Top.stack, 1), Nth(Top.stack, 2))]
     /\ (Fetch({OP_SLOAD}) /\ Len(Top.stack) >= 1 /\ ~thrown') =>
          LET storage == state[Top.context.address].storage
              key     == Nth(Top.stack, 1)
          IN  frames'[Depth].stack =
                Append(PopN(Top.stack, 1),
                       IF key \in DOMAIN storage THEN storage[key] ELSE 0)]_vars

\* the delegate-called code, given enough gas, wrote key 1 and ended by
\* REVERT: the caller pushed 0, and its later SLOAD(1) read the 7 that is still in its storage
C16_Witness ==
  /\ Halted
  /\ Top.context.bytecode =
       CallProgram(OP_DELEGATECALL, 31000, 17, 0, 32) \o ReadProgram
  /\ Top.context.gasLeft > 1000000
  /\ Top.stack = <<0, 0, 7>>
  /\ state[TopAddress].storage = StorageSet(<< >>, 1, 7)

\* the offsets at which the linear decoding from offset i finds an
\* instruction: PUSHn is followed by n bytes of immediate data
RECURSIVE InstructionStartsFrom(_, _)
InstructionStartsFrom(code, i) ==
  IF i >= Len(code) THEN {}
  ELSE {i} \cup InstructionStartsFrom(code,
                  IF code[i + 1] \in OP_PUSH1..OP_PUSH32
                  THEN i + 2 + (code[i + 1] - OP_PUSH1) ELSE i + 1)

\* the offsets whose byte is 0x5b and that are not inside push data
JumpDestinations(code) ==
  {i \in InstructionStartsFrom(code, 0) : code[i + 1] = OP_JUMPDEST}

\* the executing frame is about to execute JUMP, or a JUMPI whose condition
\* is not the number 0
Jumping ==
  /\ Fetch({OP_JUMP, OP_JUMPI})
  /\ Opcode = OP_JUMPI => ~(Len(Top.stack) >= 2 /\ Nth(Top.stack, 2) = 0)

\* C17: whenever JUMP or a taken JUMPI completes without error the new
\* program counter is the popped destination, an offset whose byte is 0x5b
\* and that is not inside the immediate data of a PUSH of the linear scan
\* from offset 0; every other destination ends the frame with success =
\* false.
C17_JumpDestinations ==
  [][Jumping =>
       LET g == frames'[Depth]
       IN  IF Len(Top.stack) >= 1
              /\ Nth(Top.stack, 1) \in JumpDestinations(Top.context.bytecode)
           THEN /\ g.status = "running"
                /\ g.error = NoError
                /\ g.programCounter = Nth(Top.stack, 1)
           ELSE /\ g.status = "returned"
                /\ ~g.success]_vars

\* a program with a byte 0x5b in push data has jumped to its JUMPDEST
C17_Witness ==
  /\ Top.context.bytecode = JumpProgram(6)
  /\ Top.status = "running"
  /\ Top.programCounter = 6
  /\ Top.stack = <<OP_JUMPDEST>>

\* the number of stack items the instruction consumes
Operands(opcode) ==
  CASE opcode \in {OP_ADD, OP_MSTORE, OP_MSTORE8, OP_SSTORE, OP_JUMPI, OP_RETURN,
                   OP_REVERT} -> 2
    [] opcode \in (OP_MUL..OP_SMOD) \cup {OP_SIGNEXTEND} \cup (OP_BYTE..OP_SAR) -> 2
    [] opcode \in {OP_ADDMOD, OP_MULMOD, OP_CALLDATACOPY, OP_CODECOPY,
                   OP_RETURNDATACOPY} -> 3
    [] opcode \in {OP_POP, OP_MLOAD, OP_SLOAD, OP_JUMP, OP_BALANCE} -> 1
    [] opcode \in OP_LOG0..(OP_LOG0 + 4) -> 2 + (opcode - OP_LOG0)
    [] opcode = OP_CALL -> 7
    [] opcode \in {OP_DELEGATECALL, OP_STATICCALL} -> 6
    [] OTHER -> 0

\* C18: every instruction executed with fewer stack items than the operands
\* it consumes (POP, JUMP and JUMPI included) ends the frame with success =
\* false; no instruction proceeds with a missing operand.
C18_StackUnderflow ==
  [][(/\ Fetch(MappedOpcodes)
      /\ Len(Top.stack) < Operands(Opcode)) =>
       /\ ~thrown'
       /\ Len(frames') = Depth
       /\ frames'[Depth].status = "returned"
       /\ ~frames'[Depth].success]_vars

\* C19: in every reachable state of every frame the stack holds at most 1024
\* items; an instruction whose push would make the depth exceed 1024 is
\* rejected and ends the frame with success = false.
C19_StackLimit ==
  \A i \in 1..Depth : Len(frames[i].stack) <= 1024

\* C20: in every reachable state every stack item is an integer in
\* [0, 2^WordBits), the word range: no instruction places a negative or
\* out-of-range value on the stack.
C20_StackItemsAreWords ==
  \A i \in 1..Depth :
    \A k \in 1..Len(frames[i].stack) :
      frames[i].stack[k] \in 0..(Pow2(WordBits) - 1)

\* C21: in every reachable state of every frame the memory length is a
\* multiple of 32 bytes, so MSIZE pushes a multiple of 32.
C21_MemoryWordAligned ==
  [][/\ \A i \in 1..Len(frames') : Len(frames'[i].memory) % 32 = 0
     /\ (Fetch({OP_MSIZE}) /\ Len(frames') = Depth) =>
          /\ frames'[Depth].stack = Append(Top.stack, Len(Top.memory))
          /\ Nth(frames'[Depth].stack, 1) % 32 = 0]_vars

\* MSIZE found a memory that an MSTORE at offset 33 had expanded
C21_Witness ==
  /\ Len(Top.memory) = 96
  /\ Top.stack # << >>
  /\ Nth(Top.stack, 1) = 96
  /\ Top.programCounter = Len(Top.context.bytecode)
  /\ Top.context.bytecode[Top.programCounter] = OP_MSIZE

\* C22: for every offset o and word v, MSTORE(o, v) leaves v in
\* memory[o..o+32) as 32 big-endian bytes, and MLOAD(o) pushes the number
\* that the 32 bytes memory[o..o+32) denote, so MLOAD(o) after MSTORE(o, v)
\* with no write to these bytes in between pushes v.
C22_StoreLoadRoundTrip ==
  [][LET o == Nth(Top.stack, 1)
         v == Nth(Top.stack, 2)
         g == frames'[Depth]
         Region(memory) == [j \in 1..32 |-> ByteAt(memory, o + j - 1)]
     IN  /\ (/\ Fetch({OP_MSTORE})
             /\ Len(Top.stack) >= 2
             /\ v \in 0..(Pow2(WordBits) - 1)) =>
              /\ Len(g.memory) >= o + 32
              /\ \A j \in 0..31 :
                   g.memory[o + j + 1] =
                     IF j < 28 THEN 0 ELSE (v \div Pow2(8 * (31 - j))) % 256
              /\ BigEndian(Region(g.memory)) = v
              /\ g.stack = PopN(Top.stack, 2)
         /\ (Fetch({OP_MLOAD}) /\ Len(Top.stack) >= 1) =>
              /\ g.stack = Append(PopN(Top.stack, 1), BigEndian(Region(Top.memory)))
              /\ \A i \in 0..(Len(Top.memory) - 1) :
                   g.memory[i + 1] = Top.memory[i + 1]]_vars

\* MLOAD(33) pushed the all-ones word that MSTORE(33, v) had written
C22_Witness ==
  /\ Top.context.bytecode =
       Push(Pow2(WordBits) - 1) \o Push(33) \o <<OP_MSTORE>> \o Push(33)
         \o <<OP_MLOAD, OP_MSIZE>>
  /\ Top.programCounter = Len(Top.context.bytecode) - 1
  /\ Top.status = "running"
  /\ Top.stack = <<Pow2(WordBits) - 1>>

\* C23: an MSTORE, MSTORE8 or MLOAD that enlarges the memory from wordsOld
\* to wordsNew 32-byte words is charged its 3 gas and exactly
\* cost(wordsNew) - cost(wordsOld) more, with cost(w) = floor(w*w/512) + 3*w;
\* PUSH1 1, PUSH3 0x010000, MSTORE on empty memory consumes
\* 3 + 3 + 3 + cost(2049) gas in total.
C23_ExpansionCost ==
  [][LET g == frames'[Depth]
         cost(w) == (w * w) \div 512 + 3 * w
         words(memory) == (Len(memory) + 31) \div 32
         charge == 3 + cost(words(g.memory)) - cost(words(Top.memory))
     IN  (/\ Fetch({OP_MSTORE, OP_MSTORE8, OP_MLOAD})
          /\ Len(Top.stack) >= Operands(Opcode)
          /\ Funded(Top.context.gasLeft - charge)) =>
           /\ g.context.gasLeft = Top.context.gasLeft - charge
           /\ Top.context.bytecode = ExpansionProgram =>
                g.context.gasLeft = 30000 - (3 + 3 + 3 + cost(2049))]_vars

\* C24: for every offset o and word v, MSTORE8(o, v) sets memory[o] to
\* v mod 256 and changes no other byte of the already-allocated memory.
C24_StoreByte ==
  [][LET o == Nth(Top.stack, 1)
         v == Nth(Top.stack, 2)
         g == frames'[Depth]
     IN  (/\ Fetch({OP_MSTORE8})
          /\ Len(Top.stack) >= 2
          /\ v \in 0..(Pow2(WordBits) - 1)) =>
           /\ Len(g.memory) > o
           /\ g.memory[o + 1] = v % 256
           /\ \A i \in 0..(Len(Top.memory) - 1) :
                i # o => g.memory[i + 1] = Top.memory[i + 1]]_vars

\* C25: the value under key k of an account changes only at an SSTORE to
\* key k executed in a non-static frame for that account, which leaves the
\* stored value there; SLOAD(k) pushes the value under k, and 0 for a key
\* never written.  So SSTORE(k, v) followed later by SLOAD(k) on the same
\* account pushes v when no SSTORE to key k of that account happened in
\* between, in this frame or in a sub-call.
C25_StoreLoadStorage ==
  [][LET a == Top.context.address
         Written(st, b, k) == k \in DOMAIN st[b].storage
         Storing == /\ Fetch({OP_SSTORE})
                    /\ ~Top.context.isStatic
                    /\ Len(Top.stack) >= 2
                    /\ HasStorage(state, a)
     IN  /\ \A b \in DOMAIN state :
              \A k \in (DOMAIN state[b].storage) \cup (DOMAIN state'[b].storage) :
                (\/ Written(state, b, k) # Written(state', b, k)
                 \/ (Written(state, b, k)
                       /\ state[b].storage[k] # state'[b].storage[k]))
                => Storing /\ b = a /\ k = Nth(Top.stack, 1)
         /\ Storing =>
              /\ Written(state', a, Nth(Top.stack, 1))
              /\ state'[a].storage[Nth(Top.stack, 1)] = Nth(Top.stack, 2)
         /\ (Fetch({OP_SLOAD}) /\ Len(Top.stack) >= 1 /\ ~thrown') =>
              Nth(frames'[Depth].stack, 1) =
                IF Written(state, a, Nth(Top.stack, 1))
                THEN state[a].storage[Nth(Top.stack, 1)] ELSE 0]_vars

\* SLOAD(1) pushed the 7 stored before a CALL whose callee stored under its
\* own key 1
C25_Witness ==
  /\ Halted
  /\ Top.context.bytecode =
       StoreProgram \o CallProgram(OP_CALL, 31000, StoreAddress, 0, 32)
         \o ReadProgram
  /\ Top.success
  /\ Top.context.gasLeft > 1000000
  /\ Top.stack = <<1, 0, 7>>
  /\ state[StoreAddress].storage = StorageSet(<< >>, 1, 7)

\* C26: for all words a (the top of the stack) and b (the item below it),
\* ADD pushes (a+b) mod 2^WordBits, MUL pushes (a*b) mod 2^WordBits and SUB
\* pushes (a-b) mod 2^WordBits, and the frame goes on.
C26_WrappingArithmetic ==
  [][LET a == Nth(Top.stack, 1)
         b == Nth(Top.stack, 2)
         g == frames'[Depth]
         M == Pow2(WordBits)
         expected ==
           CASE Opcode = OP_ADD -> IF a + b >= M THEN a + b - M ELSE a + b
             [] Opcode = OP_SUB -> IF a >= b THEN a - b ELSE M - (b - a)
             [] Opcode = OP_MUL -> a * b - M * ((a * b) \div M)
     IN  (/\ Fetch({OP_ADD, OP_MUL, OP_SUB})
          /\ Len(Top.stack) >= 2
          /\ a \in 0..(M - 1) /\ b \in 0..(M - 1)
          /\ Funded(g.context.gasLeft)) =>
           /\ g.stack = Append(PopN(Top.stack, 2), expected)
           /\ g.status = "running"
           /\ g.programCounter = Top.programCounter + 1]_vars

\* SUB of 0 and 1 pushed the all-ones word
C26_Witness ==
  /\ Top.context.bytecode = Push(1) \o Push(0) \o <<OP_SUB>>
  /\ Top.programCounter = Len(Top.context.bytecode)
  /\ Top.status = "running"
  /\ Top.stack = <<Pow2(WordBits) - 1>>

\* C27: DIV, SDIV, MOD and SMOD with divisor 0, and ADDMOD and MULMOD with
\* modulus 0, push 0 and the frame continues with the next instruction; none
\* of them raises an error.
C27_DivisionByZero ==
  [][LET g == frames'[Depth]
         arity == IF Opcode \in {OP_ADDMOD, OP_MULMOD} THEN 3 ELSE 2
     IN  (/\ Fetch({OP_DIV, OP_SDIV, OP_MOD, OP_SMOD, OP_ADDMOD, OP_MULMOD})
          /\ Len(Top.stack) >= arity
          /\ Nth(Top.stack, arity) = 0
          /\ Funded(Top.context.gasLeft - minimumGas(Opcode))) =>
           /\ ~thrown'
           /\ Len(frames') = Depth
           /\ g.stack = Append(PopN(Top.stack, arity), 0)
           /\ g.status = "running"
           /\ g.error = NoError
           /\ g.programCounter = Top.programCounter + 1]_vars

\* PUSH1 0; PUSH1 0; DIV; PUSH1 0; MSTORE; PUSH1 32; PUSH1 0; RETURN ended
\* with success and 32 zero bytes of returndata
C27_Witness ==
  /\ Halted
  /\ Top.context.bytecode =
       Push(0) \o Push(0) \o <<OP_DIV>> \o Push(0) \o <<OP_MSTORE>>
         \o Push(32) \o Push(0) \o <<OP_RETURN>>
  /\ Top.success
  /\ Top.returndata = Zeros(32)

\* C28: for all words a, b and N > 0, ADDMOD pushes (a+b) mod N and MULMOD
\* pushes (a*b) mod N computed over the unbounded integers, so the result
\* is right also when a+b or a*b is 2^WordBits or more.
C28_ModularArithmetic ==
  [][LET a == Nth(Top.stack, 1)
         b == Nth(Top.stack, 2)
         N == Nth(Top.stack, 3)
         g == frames'[Depth]
         M == Pow2(WordBits)
         exact == IF Opcode = OP_ADDMOD THEN a + b ELSE a * b
         r == Nth(g.stack, 1)
     IN  (/\ Fetch({OP_ADDMOD, OP_MULMOD})
          /\ Len(Top.stack) >= 3
          /\ a \in 0..(M - 1) /\ b \in 0..(M - 1) /\ N \in 1..(M - 1)) =>
           /\ Len(g.stack) = Len(Top.stack) - 2
           /\ PopN(g.stack, 1) = PopN(Top.stack, 3)
           /\ r \in 0..(N - 1)
           /\ ((exact - r) \div N) * N = exact - r]_vars

\* ADDMOD pushed the sum of two all-ones words modulo 3, which is not the
\* wrapped sum modulo 3
C28_Witness ==
  /\ Top.context.bytecode =
       Push(3) \o Push(Pow2(WordBits) - 1) \o Push(Pow2(WordBits) - 1)
         \o <<OP_ADDMOD>>
  /\ Top.programCounter = Len(Top.context.bytecode)
  /\ Top.status = "running"
  /\ Top.stack = <<(2 * (Pow2(WordBits) - 1)) % 3>>
  /\ Top.stack # <<(Pow2(WordBits) - 2) % 3>>

\* C29: for every b < 31 and word x, SIGNEXTEND(b, x) pushes the sign
\* extension to the word size of the low (b+1) bytes of x: the bits above
\* bit 8(b+1)-1 all equal that bit and the low (b+1) bytes are those of x;
\* for b >= 31 it pushes x.  (Checked for the b whose b+1 bytes are shorter
\* than the word of the model, and for b >= 31.)
C29_SignExtend ==
  [][LET b == Nth(Top.stack, 1)
         x == Nth(Top.stack, 2)
         g == frames'[Depth]
         M == Pow2(WordBits)
         low == x % Pow2(8 * (b + 1))
         extended == IF low >= Pow2(8 * (b + 1) - 1)
                     THEN M - Pow2(8 * (b + 1)) + low ELSE low
     IN  (/\ Fetch({OP_SIGNEXTEND})
          /\ Len(Top.stack) >= 2
          /\ b \in 0..(M - 1) /\ x \in 0..(M - 1)
          /\ b >= 31 \/ 8 * (b + 1) < WordBits) =>
           g.stack = Append(PopN(Top.stack, 2), IF b >= 31 THEN x ELSE extended)]_vars

\* C30: for every word x and shift s >= WordBits (the word size, s equal to
\* it included), SHL(s, x) and SHR(s, x) push 0, and SAR(s, x) pushes 0 when
\* x is non-negative as a signed word and the all-ones word when it is
\* negative.
C30_ShiftBeyondWord ==
  [][LET s == Nth(Top.stack, 1)
         x == Nth(Top.stack, 2)
         g == frames'[Depth]
         M == Pow2(WordBits)
     IN  (/\ Fetch({OP_SHL, OP_SHR, OP_SAR})
          /\ Len(Top.stack) >= 2
          /\ s \in WordBits..(M - 1) /\ x \in 0..(M - 1)) =>
           /\ ~thrown'
           /\ g.error = NoError
           /\ g.stack = Append(PopN(Top.stack, 2),
                               IF Opcode = OP_SAR /\ x >= M \div 2
                               THEN M - 1 ELSE 0)]_vars

\* SAR by exactly the word size pushed the all-ones word for a negative x
C30_Witness ==
  /\ Top.context.bytecode =
       Push(Pow2(WordBits - 1)) \o Push(WordBits) \o <<OP_SAR>>
  /\ Top.programCounter = Len(Top.context.bytecode)
  /\ Top.stack = <<Pow2(WordBits) - 1>>

\* C31: when the byte at the program counter is 0xFE or a value with no
\* entry in the instruction table, the frame ends at that byte and evm()
\* returns a Result with success = false.
C31_InvalidOpcodeFails ==
  [][(/\ Running
      /\ Top.programCounter < Len(Top.context.bytecode)
      /\ Opcode = OP_INVALID \/ Opcode \notin MappedOpcodes) =>
        /\ ~thrown'
        /\ Len(frames') = Depth
        /\ frames'[Depth].status = "returned"
        /\ ~Result(frames'[Depth]).success]_vars

\* C32: RETURN(offset, size) ends the frame with success = true and
\* REVERT(offset, size) ends it with success = false, and in both cases the
\* Result's returndata is exactly the size bytes memory[offset..offset+size),
\* with zero bytes where the range lies beyond the current memory.
C32_ReturnData ==
  [][(Fetch({OP_RETURN, OP_REVERT}) /\ Len(Top.stack) >= 2) =>
       LET offset == Nth(Top.stack, 1)
           size   == Nth(Top.stack, 2)
           g      == frames'[Depth]
       IN  /\ ~thrown'
           /\ Len(frames') = Depth
           /\ g.status = "returned"
           /\ Result(g).success = (Opcode = OP_RETURN)
           /\ Result(g).returndata =
                [i \in 1..size |->
                   IF offset + i <= Len(Top.memory) THEN Top.memory[offset + i]
                   ELSE 0]]_vars

\* RETURN(30, 4) after MSTORE(0, 0x0102) returned two bytes of the memory
\* and two zero bytes from beyond its end
C32_Witness ==
  /\ Top.context.bytecode =
       Push(258) \o Push(0) \o <<OP_MSTORE>>
         \o Push(4) \o Push(30) \o <<OP_RETURN>>
  /\ Top.status = "returned"
  /\ Top.success
  /\ Result(Top).returndata = <<1, 2, 0, 0>>

\* C33: in a non-static frame LOGn pops offset, size and then n topics, and
\* appends exactly one log entry whose address is the executing address,
\* whose data is memory[offset..offset+size) and whose topics are the n
\* popped words in pop order; the entries appended earlier are neither
\* changed nor removed.  The data of the entry is read as bytes, two
\* hexadecimal digits to the byte.
C33_LogEntry ==
  [][LET n      == Opcode - OP_LOG0
         offset == Nth(Top.stack, 1)
         size   == Nth(Top.stack, 2)
         g      == frames'[Depth]
         entry  == g.logs[Len(g.logs)]
         digits == toString16(entry.data)
         even   == IF Len(digits) % 2 = 1 THEN <<0>> \o digits ELSE digits
         dataBytes == [i \in 1..(Len(even) \div 2) |->
                         16 * even[2 * i - 1] + even[2 * i]]
     IN  (/\ Fetch(OP_LOG0..(OP_LOG0 + 4))
          /\ ~Top.context.isStatic
          /\ Len(Top.stack) >= 2 + n) =>
           /\ ~thrown'
           /\ Len(frames') = Depth
           /\ g.stack = PopN(Top.stack, 2 + n)
           /\ Len(g.logs) = Len(Top.logs) + 1
           /\ SubSeq(g.logs, 1, Len(Top.logs)) = Top.logs
           /\ entry.address = Top.context.address
           /\ entry.topics = [i \in 1..n |-> Nth(Top.stack, 2 + i)]
           /\ dataBytes =
                [i \in 1..size |->
                   IF offset + i <= Len(Top.memory) THEN Top.memory[offset + i]
                   ELSE 0]]_vars

\* C34: BYTE, SHL, SHR and SAR are not terminating instructions: after any
\* of them executes without error the frame continues with the instruction
\* at PC+1, so that PUSH x, PUSH s, SHR, PUSH s, SHL leaves x with its low s
\* bits zeroed on the stack.  (Stated for the instructions that have one
\* after them in the bytecode.)
C34_ShiftsContinue ==
  [][(/\ Fetch(OP_BYTE..OP_SAR)
      /\ Len(Top.stack) >= 2
      /\ Top.programCounter + 1 < Len(Top.context.bytecode)) =>
       LET g == frames'[Depth]
       IN  (~thrown' /\ g.error = NoError) =>
             /\ g.status = "running"
             /\ g.programCounter = Top.programCounter + 1]_vars

\* C35: JUMPI pops exactly two items (destination, condition) and leaves
\* every item below them unchanged, both when the condition is 0 (PC becomes
\* PC+1) and when it is non-zero (PC becomes the destination, a JUMPDEST).
C35_JumpiPopsTwo ==
  [][LET dest == Nth(Top.stack, 1)
         b    == Nth(Top.stack, 2)
         g    == frames'[Depth]
     IN  (/\ Fetch({OP_JUMPI})
          /\ Len(Top.stack) >= 2
          /\ b = 0 \/ dest \in JumpDestinations(Top.context.bytecode)) =>
           /\ ~thrown'
           /\ g.error = NoError
           /\ g.stack = PopN(Top.stack, 2)
           /\ g.programCounter = IF b = 0 THEN Top.programCounter + 1 ELSE dest]_vars

\* the offset the linear decoding reaches from the instruction boundary i
\* after at most n instructions, stopping at the first boundary at or past
\* target: PUSHn is 1 + n bytes long and every other instruction 1 byte
RECURSIVE DecodeTo(_, _, _, _)
DecodeTo(code, i, target, n) ==
  IF i >= target \/ i >= Len(code) \/ n = 0 THEN i
  ELSE IF n = 1
  THEN (IF code[i + 1] \in OP_PUSH1..OP_PUSH32
        THEN i + 2 + (code[i + 1] - OP_PUSH1) ELSE i + 1)
  ELSE DecodeTo(code, DecodeTo(code, i, target, n \div 2), target, n - n \div 2)

\* C36: in every reachable state the program counter of every frame is
\* either past the end of the bytecode or an instruction boundary of the
\* linear decoding from offset 0, so that a byte of PUSH immediate data is
\* never fetched as an opcode; and a frame whose loop finds the program
\* counter past the end ends with success = true.
C36_ProgramCounterOnBoundary ==
  /\ [](\A i \in 1..Depth :
          LET code == frames[i].context.bytecode
              pc   == frames[i].programCounter
          IN  pc >= Len(code) \/ DecodeTo(code, 0, pc, pc) = pc)
  /\ [][(Running /\ Top.programCounter >= Len(Top.context.bytecode)) =>
          /\ Len(frames') = Depth
          /\ frames'[Depth].status = "returned"
          /\ frames'[Depth].success]_vars

\* PUSH1 1 and PUSH3 0x010000 have advanced the program counter by 2 and by
\* 4, over their immediate data
C36_Witness ==
  /\ Top.context.bytecode = ExpansionProgram
  /\ Top.status = "running"
  /\ Top.programCounter = 6
  /\ Top.stack = <<1, 65536>>

\* C37: after a memory read or write of n > 0 bytes at offset o (MSTORE and
\* MLOAD: 32 bytes, MSTORE8 of a byte value: 1 byte, RETURN and REVERT: size
\* bytes) the memory length equals max(previous length, 32 * ceil((o+n)/32)):
\* memory grows exactly to the 32-byte multiple covering o+n and never
\* further, also when memory was already non-empty.
C37_MemoryGrowsExactly ==
  [][LET o == Nth(Top.stack, 1)
         n == CASE Opcode \in {OP_MSTORE, OP_MLOAD} -> 32
                [] Opcode = OP_MSTORE8 -> 1
                [] OTHER -> Nth(Top.stack, 2)
         g == frames'[Depth]
     IN  (/\ Fetch({OP_MSTORE, OP_MLOAD, OP_MSTORE8, OP_RETURN, OP_REVERT})
          /\ Len(Top.stack) >= Operands(Opcode)
          /\ Opcode = OP_MSTORE8 => Nth(Top.stack, 2) < 256
          /\ n > 0) =>
           /\ ~thrown'
           /\ Len(g.memory) = Max(Len(Top.memory), 32 * ((o + n + 31) \div 32))]_vars

\* C38: a memory read or write of length 0 at any offset (CALLDATACOPY and
\* CODECOPY with size 0, RETURN, REVERT and LOG with size 0, a sub-call whose
\* empty returndata is copied to retOffset) leaves the memory length
\* unchanged and charges no expansion gas, even when the offset is beyond
\* the current memory length.
C38_ZeroLengthNoExpansion ==
  [][/\ (/\ Fetch({OP_CALLDATACOPY, OP_CODECOPY, OP_RETURN, OP_REVERT}
                     \cup (OP_LOG0..(OP_LOG0 + 4)))
         /\ Opcode \in OP_LOG0..(OP_LOG0 + 4) => ~Top.context.isStatic
         /\ Len(Top.stack) >= Operands(Opcode)
         /\ Nth(Top.stack, IF Opcode \in {OP_CALLDATACOPY, OP_CODECOPY}
                           THEN 3 ELSE 2) = 0) =>
          /\ ~thrown'
          /\ Len(frames'[Depth].memory) = Len(Top.memory)
          /\ frames'[Depth].context.gasLeft =
               ChargeGas(Top.context.gasLeft, Opcode, 0)
     /\ (/\ ~thrown /\ Depth >= 2 /\ Top.status = "returned"
         /\ Result(Top).returndata = << >>) =>
          Len(frames'[Depth - 1].memory) = Len(frames[Depth - 1].memory)]_vars


\* C39: RETURNDATACOPY leaves the frame's returndata buffer unchanged: for
\* every destOffset, offset and size on the stack the buffer after the step
\* has the bytes and the length it had before it, so RETURNDATASIZE pushes
\* the same value on both sides of the instruction.
C39_ReturndataUnchanged ==
  [][(/\ Fetch({OP_RETURNDATACOPY})
      /\ Len(Top.stack) >= 3) =>
       /\ ~thrown'
       /\ frames'[Depth].returndata = Top.returndata
       /\ RETURNDATASIZE(frames'[Depth]).stack[Len(frames'[Depth].stack) + 1] =
            RETURNDATASIZE(Top).stack[Len(Top.stack) + 1]]_vars


\* C40: executing a frame whose context has callValue v reduces the balance
\* of the caller's account by exactly v in total, whatever the number of
\* instructions the frame executes, and changes no other field of the
\* caller's account.  (Stated for the top-level frame of the programs that
\* make no sub-call: when evm() has returned, the sender's account is the
\* one it started with, with callValue taken from its balance once.)
C40_CallValueTakenOnce ==
  (/\ Halted
   /\ ~thrown
   /\ \A i \in 1..Len(Top.context.bytecode) :
        Top.context.bytecode[i] \notin {OP_CALL, OP_DELEGATECALL, OP_STATICCALL}) =>
    state[Top.context.caller] =
      [World(Top.context.bytecode)[Top.context.caller]
         EXCEPT !.balance = @ - Top.context.callValue]

====
